---- MODULE Spec2Model ----
(***************************************************************************)
(* A model of the network scanner's engine: the batch scheduler shared by  *)
(* PortScanner.scanPorts and NetworkUtils.discoverNetwork, the single      *)
(* probes (scanPort, pingHost), the banner pass (getBanner,                *)
(* detectServices) and the two API routes that call them.                  *)
(*                                                                         *)
(* JavaScript values are modelled as follows.  A string is a sequence of   *)
(* one-character strings.  An optional field (undefined or a value) is the *)
(* empty sequence or a one-element sequence.  A promise is a record with   *)
(* its state ("pending", "fulfilled", "rejected") and its value.           *)
(***************************************************************************)
EXTENDS Integers, Sequences, FiniteSets, TLC

(***************************************************************************)
(* Bounds of the direct engine calls.                                      *)
(***************************************************************************)
MaxLen == 3        \* longest input list handed directly to the engine
MaxConc == 3       \* largest concurrency handed directly to the engine

(***************************************************************************)
(* The environment: which ports have a listener, which hosts answer a      *)
(* ping, and the latencies a clock difference may show.                    *)
(***************************************************************************)
PortSample == {22, 80, 9999}
Listeners == {22, 80}
Host1 == <<"1", "0", ".", "0", ".", "0", ".", "1">>
Host2 == <<"1", "0", ".", "0", ".", "0", ".", "2">>
HostSample == {Host1, Host2}
AliveHosts == {Host1}
Latencies == {0, 12}

Undefined == <<>>
Some(v) == <<v>>

RECURSIVE SeqsUpTo(_, _)
SeqsUpTo(S, n) ==
  IF n = 0 THEN {<<>>}
  ELSE LET shorter == SeqsUpTo(S, n - 1)
       IN shorter \cup {Append(s, x) : s \in {t \in shorter : Len(t) = n - 1}, x \in S}

RECURSIVE SumSeq(_)
SumSeq(s) == IF s = <<>> THEN 0 ELSE s[1] + SumSeq(Tail(s))

RECURSIVE Flatten(_)
Flatten(ss) == IF ss = <<>> THEN <<>> ELSE ss[1] \o Flatten(Tail(ss))

Count(x, s) == Cardinality({i \in 1..Len(s) : s[i] = x})

(***************************************************************************)
(* JavaScript numbers.  completed / length and its product with 100 are    *)
(* IEEE-754 doubles: a positive double is (int + frac) * 2^exp, with frac  *)
(* the 52 fraction bits held as FracLimbs limbs of LimbBits bits.          *)
(***************************************************************************)
LimbBits == 13
FracLimbs == 4

RECURSIVE pow2(_)
pow2(e) == IF e = 0 THEN 1 ELSE 2 * pow2(e - 1)

LimbBase == pow2(LimbBits)

\* F applied to the value of e, e evaluated once.
Bind(e, F(_)) == CHOOSE r \in {F(x) : x \in {e}} : TRUE

\* The least s with k * 2^s >= n, and k * 2^s.
RECURSIVE normalize(_, _, _)
normalize(k, n, s) ==
  IF k >= n THEN [num |-> k, shift |-> s] ELSE normalize(2 * k, n, s + 1)

\* The next cnt limbs of the binary expansion of r / n, and the remainder.
RECURSIVE divLimbs(_, _, _, _)
divLimbs(r, n, cnt, acc) ==
  IF cnt = 0 THEN [limbs |-> acc, rem |-> r]
  ELSE Bind(r * LimbBase,
            LAMBDA t : divLimbs(t % n, n, cnt - 1, Append(acc, t \div n)))

\* limbs[1..i] + inc at limb i: the carry out, then the new limbs.
RECURSIVE addAt(_, _, _)
addAt(limbs, i, inc) ==
  IF i = 0 THEN <<inc>>
  ELSE Bind(limbs[i] + inc,
            LAMBDA t : Append(addAt(limbs, i - 1, t \div LimbBase), t % LimbBase))

\* limbs[1..i] * c + carry: the carry out, then the new limbs.
RECURSIVE mulAt(_, _, _, _)
mulAt(limbs, i, c, carry) ==
  IF i = 0 THEN <<carry>>
  ELSE Bind(limbs[i] * c + carry,
            LAMBDA t : Append(mulAt(limbs, i - 1, c, t \div LimbBase), t % LimbBase))

RECURSIVE bitLength(_)
bitLength(v) == IF v = 0 THEN 0 ELSE 1 + bitLength(v \div 2)

\* x + inc units of the last limb.
addLimbs(x, inc) ==
  Bind(addAt(x.frac, FracLimbs, inc),
       LAMBDA s : [int |-> x.int + s[1], frac |-> Tail(s), exp |-> x.exp])

\* An exact value rounded to 53 significant bits, ties to even.
roundToDouble(x) ==
  Bind(pow2(bitLength(x.int) - 1),
       LAMBDA unit :
         LET last == x.frac[FracLimbs]
             low == last % unit
         IN IF 2 * low > unit \/ (2 * low = unit /\ (last \div unit) % 2 = 1)
            THEN addLimbs([x EXCEPT !.frac[FracLimbs] = last - low], unit)
            ELSE [x EXCEPT !.frac[FracLimbs] = last - low])

\* k / n for integers 1 <= k <= n, rounded to the nearest double, ties to even.
fdiv(k, n) ==
  Bind(normalize(k, n, 0),
       LAMBDA nz :
         Bind(divLimbs(nz.num - n, n, FracLimbs, <<>>),
              LAMBDA q :
                IF 2 * q.rem > n \/ (2 * q.rem = n /\ q.limbs[FracLimbs] % 2 = 1)
                THEN addLimbs([int |-> 1, frac |-> q.limbs, exp |-> 0 - nz.shift], 1)
                ELSE [int |-> 1, frac |-> q.limbs, exp |-> 0 - nz.shift]))

\* x * c for a double x and a small integer c, rounded to the nearest double.
fmul(x, c) ==
  Bind(mulAt(x.frac, FracLimbs, c, 0),
       LAMBDA s :
         Bind([int |-> x.int * c + s[1], frac |-> Tail(s), exp |-> x.exp],
              LAMBDA y : roundToDouble(y)))

\* Math.round of a positive double with exp <= 0: floor(x + 0.5).
MathRound(x) ==
  IF x.exp = 0 THEN x.int + (IF 2 * x.frac[1] >= LimbBase THEN 1 ELSE 0)
  ELSE (x.int + pow2(0 - x.exp - 1)) \div pow2(0 - x.exp)

\* Math.round((completed / length) * 100)
progressPercent(completed, total) ==
  Bind(fdiv(completed, total),
       LAMBDA q : Bind(fmul(q, 100), LAMBDA x : MathRound(x)))

\* round(100 * k / n) over the rationals, halves rounded up.
ExactPercent(k, n) == (200 * k + n) \div (2 * n)

(***************************************************************************)
(* types/scanner: COMMON_PORTS and DEFAULT_SCAN_PORTS.                     *)
(***************************************************************************)
COMMON_PORTS ==
  [p \in {21, 22, 23, 25, 53, 80, 110, 143, 443, 993, 995, 1433, 3306, 3389, 5432,
          5900, 8080, 8443} |->
     CASE p = 21 -> "FTP" [] p = 22 -> "SSH" [] p = 23 -> "Telnet" [] p = 25 -> "SMTP"
       [] p = 53 -> "DNS" [] p = 80 -> "HTTP" [] p = 110 -> "POP3" [] p = 143 -> "IMAP"
       [] p = 443 -> "HTTPS" [] p = 993 -> "IMAPS" [] p = 995 -> "POP3S"
       [] p = 1433 -> "MSSQL" [] p = 3306 -> "MySQL" [] p = 3389 -> "RDP"
       [] p = 5432 -> "PostgreSQL" [] p = 5900 -> "VNC" [] p = 8080 -> "HTTP-Alt"
       [] p = 8443 -> "HTTPS-Alt"]

DEFAULT_SCAN_PORTS ==
  <<21, 22, 23, 25, 53, 80, 135, 139, 443, 445, 993, 995, 1723, 3306, 3389, 5900, 8080>>

\* COMMON_PORTS[port] || 'Unknown'
serviceName(port) == IF port \in DOMAIN COMMON_PORTS THEN COMMON_PORTS[port] ELSE "Unknown"

(***************************************************************************)
(* JavaScript strings: trim, toLowerCase, includes, split, parseInt.        *)
(***************************************************************************)
Digits == <<"0", "1", "2", "3", "4", "5", "6", "7", "8", "9">>
UpperCase ==
  <<"A", "B", "C", "D", "E", "F", "G", "H", "I", "J", "K", "L", "M",
    "N", "O", "P", "Q", "R", "S", "T", "U", "V", "W", "X", "Y", "Z">>
LowerCase ==
  <<"a", "b", "c", "d", "e", "f", "g", "h", "i", "j", "k", "l", "m",
    "n", "o", "p", "q", "r", "s", "t", "u", "v", "w", "x", "y", "z">>

Min(a, b) == IF a <= b THEN a ELSE b
setMin(S) == CHOOSE x \in S : \A y \in S : x <= y

isDigit(c) == \E d \in 1..10 : Digits[d] = c
digitValue(c) == (CHOOSE d \in 1..10 : Digits[d] = c) - 1
isSpace(c) == c \in {" ", "\t", "\n", "\r"}

toLowerChar(c) ==
  IF \E i \in 1..26 : UpperCase[i] = c
  THEN LowerCase[CHOOSE i \in 1..26 : UpperCase[i] = c]
  ELSE c

toLowerCase(s) == [i \in 1..Len(s) |-> toLowerChar(s[i])]

\* The text from its first to its last character that is no whitespace.
trim(s) ==
  IF \A i \in 1..Len(s) : isSpace(s[i]) THEN <<>>
  ELSE SubSeq(s,
              CHOOSE i \in 1..Len(s) : ~isSpace(s[i]) /\ \A j \in 1..(i - 1) : isSpace(s[j]),
              CHOOSE i \in 1..Len(s) : ~isSpace(s[i]) /\ \A j \in (i + 1)..Len(s) : isSpace(s[j]))

includes(s, c) == \E i \in 1..Len(s) : s[i] = c

RECURSIVE splitFrom(_, _, _, _, _)
splitFrom(s, sep, i, parts, cur) ==
  IF i > Len(s) THEN Append(parts, cur)
  ELSE IF s[i] = sep THEN splitFrom(s, sep, i + 1, Append(parts, cur), <<>>)
  ELSE splitFrom(s, sep, i + 1, parts, Append(cur, s[i]))

\* s.split(sep) for a one-character separator.
split(s, sep) == splitFrom(s, sep, 1, <<>>, <<>>)

\* A number that parseInt returns: NaN or an integer.
NaN == [nan |-> TRUE, val |-> 0]
Num(v) == [nan |-> FALSE, val |-> v]

RECURSIVE digitsValue(_, _)
digitsValue(s, n) == IF n = 0 THEN 0 ELSE 10 * digitsValue(s, n - 1) + digitValue(s[n])

\* parseInt(text, 10): leading whitespace, a sign, then the leading digits.
parseInt(text) ==
  LET black == {i \in 1..Len(text) : ~isSpace(text[i])}
      t == IF black = {} THEN <<>> ELSE SubSeq(text, setMin(black), Len(text))
      signed == t # <<>> /\ t[1] \in {"+", "-"}
      body == IF signed THEN Tail(t) ELSE t
      stop == {i \in 1..Len(body) : ~isDigit(body[i])}
      n == IF stop = {} THEN Len(body) ELSE setMin(stop) - 1
  IN IF n = 0 THEN NaN
     ELSE Num(IF t[1] = "-" THEN 0 - digitsValue(body, n) ELSE digitsValue(body, n))

RECURSIVE decimal(_)
decimal(n) ==
  IF n < 10 THEN <<Digits[n + 1]>> ELSE Append(decimal(n \div 10), Digits[(n % 10) + 1])

\* [...new Set(values)].sort((a, b) => a - b)
sortAscending(S) ==
  [i \in 1..Cardinality(S) |-> CHOOSE x \in S : Cardinality({y \in S : y < x}) = i - 1]

(***************************************************************************)
(* JavaScript's 32-bit operators.  An integer-valued number is hi * 2^16 + *)
(* lo with 0 <= lo < 2^16 (hi is negative for a negative number), or NaN.  *)
(***************************************************************************)
Half == pow2(16)

W(hi, lo) == [nan |-> FALSE, hi |-> hi, lo |-> lo]
NaNW == [nan |-> TRUE, hi |-> 0, lo |-> 0]
N(v) == W(v \div Half, v % Half)
toWide(n) == IF n.nan THEN NaNW ELSE N(n.val)
toInt(x) == x.hi * Half + x.lo

\* 0xffffffff
AllOnes == W(Half - 1, Half - 1)

ToUint32(x) == IF x.nan THEN W(0, 0) ELSE W(x.hi % Half, x.lo)

ToInt32(x) ==
  LET u == ToUint32(x)
  IN W(IF 2 * u.hi >= Half THEN u.hi - Half ELSE u.hi, u.lo)

\* The shift count of <<, >> and >>>: ToUint32(count) & 31.
shiftCount(count) == IF count.nan THEN 0 ELSE count.lo % 32

\* x << count
shiftLeft(x, count) ==
  LET u == ToUint32(x)
      c == shiftCount(count)
  IN ToInt32(IF c < 16
             THEN W((u.hi % pow2(16 - c)) * pow2(c) + u.lo \div pow2(16 - c),
                    (u.lo % pow2(16 - c)) * pow2(c))
             ELSE W((u.lo % pow2(32 - c)) * pow2(c - 16), 0))

\* x >>> count
unsignedShiftRight(x, count) ==
  LET u == ToUint32(x)
      c == shiftCount(count)
  IN IF c < 16
     THEN W(u.hi \div pow2(c), u.lo \div pow2(c) + (u.hi % pow2(c)) * pow2(16 - c))
     ELSE W(0, u.hi \div pow2(c - 16))

\* x >> count
shiftRight(x, count) ==
  LET v == ToInt32(x)
      c == shiftCount(count)
  IN IF c < 16
     THEN W(v.hi \div pow2(c), v.lo \div pow2(c) + (v.hi % pow2(c)) * pow2(16 - c))
     ELSE N(v.hi \div pow2(c - 16))

RECURSIVE andBits(_, _, _)
andBits(a, b, n) ==
  IF n = 0 THEN 0 ELSE (a % 2) * (b % 2) + 2 * andBits(a \div 2, b \div 2, n - 1)

\* x & y
bitAnd(x, y) ==
  LET a == ToUint32(x)
      b == ToUint32(y)
  IN ToInt32(W(andBits(a.hi, b.hi, 16), andBits(a.lo, b.lo, 16)))

\* x | y
bitOr(x, y) ==
  LET a == ToUint32(x)
      b == ToUint32(y)
  IN ToInt32(W(a.hi + b.hi - andBits(a.hi, b.hi, 16), a.lo + b.lo - andBits(a.lo, b.lo, 16)))

\* x + y and x - y (exact: the values stay far below 2^53)
add(x, y) ==
  IF x.nan \/ y.nan THEN NaNW
  ELSE W(x.hi + y.hi + (x.lo + y.lo) \div Half, (x.lo + y.lo) % Half)

sub(x, y) ==
  IF x.nan \/ y.nan THEN NaNW
  ELSE W(x.hi - y.hi + (x.lo - y.lo) \div Half, (x.lo - y.lo) % Half)

\* x > y (false when either is NaN)
greaterThan(x, y) ==
  ~x.nan /\ ~y.nan /\ (x.hi > y.hi \/ (x.hi = y.hi /\ x.lo > y.lo))

\* Math.max(0, x)
mathMax0(x) == IF x.nan THEN NaNW ELSE IF x.hi < 0 THEN N(0) ELSE x

(***************************************************************************)
(* NetworkUtils: ipToInt, intToIP, isValidIP, parseIPRange, generateIPList. *)
(***************************************************************************)
RECURSIVE reduceOctets(_, _, _)
reduceOctets(octets, i, int) ==
  IF i > Len(octets) THEN int
  ELSE reduceOctets(octets, i + 1, add(shiftLeft(int, N(8)), toWide(parseInt(octets[i]))))

\* An ipToInt without the final >>> 0: a signed 32-bit value.
ipToIntSigned(ip) == reduceOctets(split(ip, "."), 1, N(0))

\* ip.split('.').reduce((int, octet) => (int << 8) + parseInt(octet, 10), 0) >>> 0
ipToInt(ip) == unsignedShiftRight(reduceOctets(split(ip, "."), 1, N(0)), N(0))

\* [(int >>> 24), (int >> 16 & 255), (int >> 8 & 255), (int & 255)].join('.')
intToIP(int) ==
  decimal(toInt(unsignedShiftRight(int, N(24)))) \o <<".">>
    \o decimal(toInt(bitAnd(shiftRight(int, N(16)), N(255)))) \o <<".">>
    \o decimal(toInt(bitAnd(shiftRight(int, N(8)), N(255)))) \o <<".">>
    \o decimal(toInt(bitAnd(int, N(255))))

\* 25[0-5]|2[0-4][0-9]|[01]?[0-9][0-9]?
isOctet(o) ==
  /\ Len(o) \in 1..3
  /\ \A i \in 1..Len(o) : isDigit(o[i])
  /\ Len(o) = 3 =>
       \/ o[1] \in {"0", "1"}
       \/ o[1] = "2" /\ digitValue(o[2]) <= 4
       \/ o[1] = "2" /\ o[2] = "5" /\ digitValue(o[3]) <= 5

isValidIP(ip) ==
  LET parts == split(ip, ".")
  IN Len(parts) = 4 /\ \A i \in 1..4 : isOctet(parts[i])

\* A NetworkRange that parseIPRange returned, or the Error it threw.
NetworkRange(startIP, endIP, cidr, totalHosts) ==
  [ok |-> TRUE, startIP |-> startIP, endIP |-> endIP, cidr |-> cidr,
   totalHosts |-> totalHosts, error |-> ""]

RangeError(message) ==
  [ok |-> FALSE, startIP |-> <<>>, endIP |-> <<>>, cidr |-> <<>>,
   totalHosts |-> NaNW, error |-> message]

parseCIDR(input) ==
  LET network == split(input, "/")[1]
      prefix == parseInt(split(input, "/")[2])
      networkInt == ipToInt(network)
      mask == shiftLeft(AllOnes, sub(N(32), toWide(prefix)))
      startIP == bitAnd(networkInt, mask)
      endIP == bitOr(startIP, unsignedShiftRight(AllOnes, toWide(prefix)))
  IN IF ~prefix.nan /\ (prefix.val < 0 \/ prefix.val > 32)
     THEN RangeError("Invalid CIDR prefix length")
     ELSE NetworkRange(intToIP(add(startIP, N(1))), intToIP(sub(endIP, N(1))), input,
                       mathMax0(sub(sub(endIP, startIP), N(1))))

parseDashRange(input) ==
  LET start == trim(split(input, "-")[1])
      end == trim(split(input, "-")[2])
      startInt == ipToInt(start)
      endInt == ipToInt(end)
  IN IF greaterThan(startInt, endInt)
     THEN RangeError("Invalid IP range: start IP is greater than end IP")
     ELSE NetworkRange(start, end, start \o <<"-">> \o end,
                       add(sub(endInt, startInt), N(1)))

parseIPRange(text) ==
  LET input == trim(text)
  IN IF includes(input, "/") THEN parseCIDR(input)
     ELSE IF includes(input, "-") THEN parseDashRange(input)
     ELSE IF isValidIP(input) THEN NetworkRange(input, input, input, N(1))
     ELSE RangeError("Invalid IP range format")

\* for (let i = startInt; i <= endInt; i++) ips.push(this.intToIP(i))
\* A loop that stops before endInt: i < endInt.
ipListLengthExclusive(range) ==
  LET startInt == ipToInt(range.startIP)
      endInt == ipToInt(range.endIP)
  IN IF greaterThan(startInt, endInt) THEN N(0) ELSE sub(endInt, startInt)

\* The number of times the loop pushes.
ipListLength(range) ==
  LET startInt == ipToInt(range.startIP)
      endInt == ipToInt(range.endIP)
  IN IF greaterThan(startInt, endInt) THEN N(0)
     ELSE add(sub(endInt, startInt), N(1))

\* A generateIPList that hands the range's startIP text over as it was given.
generateIPListRaw(range) ==
  LET startInt == ipToInt(range.startIP)
  IN [k \in 1..toInt(ipListLength(range)) |->
        IF k = 1 THEN range.startIP ELSE intToIP(add(startInt, N(k - 1)))]

generateIPList(range) ==
  LET startInt == ipToInt(range.startIP)
  IN [k \in 1..toInt(ipListLength(range)) |-> intToIP(add(startInt, N(k - 1)))]

(***************************************************************************)
(* PortScanner.parsePorts: the list it returns, or the Error it throws.    *)
(***************************************************************************)
PortList(ports) == [ok |-> TRUE, ports |-> ports, error |-> ""]
PortsError(message) == [ok |-> FALSE, ports |-> <<>>, error |-> message]

Common == <<"c", "o", "m", "m", "o", "n">>

\* A filter that lets port 0 through: p >= 0.
isPortNumberFromZero(n) == ~n.nan /\ n.val >= 0 /\ n.val <= 65535

isPortNumber(n) == ~n.nan /\ n.val >= 1 /\ n.val <= 65535

parsePortRange(input) ==
  LET start == parseInt(trim(split(input, "-")[1]))
      end == parseInt(trim(split(input, "-")[2]))
  IN IF start.nan \/ end.nan \/ start.val > end.val \/ start.val < 1 \/ end.val > 65535
     THEN PortsError("Invalid port range")
     ELSE PortList([k \in 1..(end.val - start.val + 1) |-> start.val + k - 1])

parsePortCommaList(input) ==
  LET tokens == split(input, ",")
      ports == {parseInt(trim(tokens[i])).val :
                  i \in {j \in 1..Len(tokens) : isPortNumber(parseInt(trim(tokens[j])))}}
  IN IF ports = {} THEN PortsError("No valid ports found")
     ELSE PortList(sortAscending(ports))

parseSinglePort(input) ==
  LET port == parseInt(input)
  IN IF ~isPortNumber(port) THEN PortsError("Invalid port number")
     ELSE PortList(<<port.val>>)

parsePorts(portInput) ==
  LET input == toLowerCase(trim(portInput))
  IN IF input = Common THEN PortList(DEFAULT_SCAN_PORTS)
     ELSE IF includes(input, "-") THEN parsePortRange(input)
     ELSE IF includes(input, ",") THEN parsePortCommaList(input)
     ELSE parseSinglePort(input)

(***************************************************************************)
(* PortScanner.scanPort: the promise's outcome on each socket event.  Each *)
(* handler destroys the socket and resolves the promise.                   *)
(***************************************************************************)
Settled(st, socket, value) == [st |-> st, socket |-> socket, value |-> Some(value)]
Pending == [st |-> "pending", socket |-> "connecting", value |-> Undefined]

scanPortOnConnect(port, responseTime) ==
  Settled("fulfilled", "destroyed",
          [port |-> port, isOpen |-> TRUE, service |-> serviceName(port),
           responseTime |-> Some(responseTime), banner |-> Undefined])

\* A timeout handler that destroys the socket and forgets to resolve.
scanPortOnTimeoutNoResolve(port) ==
  [st |-> "pending", socket |-> "destroyed", value |-> Undefined]

scanPortOnTimeout(port) ==
  Settled("fulfilled", "destroyed",
          [port |-> port, isOpen |-> FALSE, service |-> serviceName(port),
           responseTime |-> Undefined, banner |-> Undefined])

\* An error handler that rejects the promise with the socket's error.
scanPortOnErrorRejects(port) ==
  [st |-> "rejected", socket |-> "destroyed", value |-> Undefined]

scanPortOnError(port) ==
  Settled("fulfilled", "destroyed",
          [port |-> port, isOpen |-> FALSE, service |-> serviceName(port),
           responseTime |-> Undefined, banner |-> Undefined])

\* The events a connecting socket can raise: 'connect' needs a listener.
scanPortEvents(port) ==
  {"timeout", "error"} \cup (IF port \in Listeners THEN {"connect"} ELSE {})

\* The promise of scanPort after the socket's first event.
scanPortOnEvent(port, ev, responseTime) ==
  CASE ev = "connect" -> scanPortOnConnect(port, responseTime)
    [] ev = "timeout" -> scanPortOnTimeout(port)
    [] ev = "error" -> scanPortOnError(port)

(***************************************************************************)
(* NetworkUtils.pingHost: the promise's outcome when the ping command      *)
(* ends: stdout with the success marker, stdout without it, or execAsync   *)
(* rejecting (caught).                                                     *)
(***************************************************************************)
\* A pingHost that reports the elapsed time whether or not the host replied.
pingHostOnStdoutAlwaysTimed(ip, hasMarker, responseTime) ==
  Settled("fulfilled", "exited",
          [ip |-> ip, isActive |-> hasMarker, responseTime |-> Some(responseTime),
           lastSeen |-> IF hasMarker THEN Some("Date") ELSE Undefined])

pingHostOnStdout(ip, hasMarker, responseTime) ==
  Settled("fulfilled", "exited",
          [ip |-> ip, isActive |-> hasMarker,
           responseTime |-> IF hasMarker THEN Some(responseTime) ELSE Undefined,
           lastSeen |-> IF hasMarker THEN Some("Date") ELSE Undefined])

pingHostOnExecError(ip) ==
  Settled("fulfilled", "exited",
          [ip |-> ip, isActive |-> FALSE, responseTime |-> Undefined,
           lastSeen |-> Undefined])

\* How the ping command can end: only a host that is up sends a reply.
pingHostEvents(ip) ==
  {"exec-error", "no-reply"} \cup (IF ip \in AliveHosts THEN {"reply"} ELSE {})

\* The promise of pingHost after the ping command ended.
pingHostOnEvent(ip, ev, responseTime) ==
  CASE ev = "reply" -> pingHostOnStdout(ip, TRUE, responseTime)
    [] ev = "no-reply" -> pingHostOnStdout(ip, FALSE, responseTime)
    [] ev = "exec-error" -> pingHostOnExecError(ip)

(***************************************************************************)
(* The state: one engine call (scanPorts or discoverNetwork), one          *)
(* detectServices call with the getBanner call it awaits, and one API      *)
(* request with its response.                                              *)
(***************************************************************************)
VARIABLES
  call,       \* the engine call: [fn, items, concurrency, onProgress]
  pc,         \* "idle", "ready", "running" (awaiting Promise.all), "returned", "threw"
  chunks,     \* const chunks = this.chunkArray(items, concurrency)
  chunkIdx,   \* the for loop's position in chunks (0 before the loop)
  probes,     \* per chunk, the promises chunk.map created (<<>>: not yet mapped)
  completed,  \* let completed = 0
  progress,   \* the calls of onProgress so far: how many, and the last one's arguments
  results,    \* const results = []
  returned,   \* the array the call returned
  lastEvent,  \* the latest socket or process event: the item it was for, and its kind
  detect,     \* detectServices: [pc, input, idx, results]
  sock,       \* the getBanner call detectServices awaits: promise, socket, banner, timer
  route,      \* the API request: [pc, req]
  response,   \* the response the route returned (status 0: none yet)
  applied,    \* a direct call of a parsing function: [fn, arg, pc, range, length, ips, ports]
  ui          \* the NetworkScanner component: its state and its run of startScan

engineVars ==
  <<call, pc, chunks, chunkIdx, probes, completed, progress, results, returned, lastEvent>>
bannerVars == <<detect, sock>>
routeVars == <<route, response>>
vars == <<engineVars, bannerVars, routeVars, applied, ui>>

(***************************************************************************)
(* The batch scheduler of scanPorts and discoverNetwork.                   *)
(***************************************************************************)
\* for (let i = start; i < array.length; i += size) chunks.push(array.slice(i, i + size))
RECURSIVE chunkFrom(_, _, _)
chunkFrom(array, size, i) ==
  IF i >= Len(array) THEN <<>>
  ELSE <<SubSeq(array, i + 1, Min(i + size, Len(array)))>> \o chunkFrom(array, size, i + size)

\* A chunking that keeps only the full chunks (i + size <= array.length).
RECURSIVE fullChunksFrom(_, _, _)
fullChunksFrom(array, size, i) ==
  IF i + size > Len(array) THEN <<>>
  ELSE <<SubSeq(array, i + 1, i + size)>> \o fullChunksFrom(array, size, i + size)

chunkArrayDropsRemainder(array, size) == fullChunksFrom(array, size, 0)

\* A chunking that is off by one: size + 1 items a chunk.
chunkArrayOversize(array, size) == chunkFrom(array, size + 1, 0)

chunkArray(array, size) == chunkFrom(array, size, 0)

\* The probe function of the engine: this.scanPort or this.pingHost.
probeEvents(fn, item) ==
  IF fn = "scanPorts" THEN scanPortEvents(item) ELSE pingHostEvents(item)

probeOnEvent(fn, item, ev, responseTime) ==
  IF fn = "scanPorts" THEN scanPortOnEvent(item, ev, responseTime)
  ELSE pingHostOnEvent(item, ev, responseTime)

\* chunk.map(async (item) => { ... }): every probe of the chunk is started.
mapChunk(chunk) == [p \in 1..Len(chunk) |-> Pending]

\* Promise.race / Promise.any in place of Promise.all: done with the first probe.
promiseAllIsRace(promises) ==
  IF \E p \in 1..Len(promises) : promises[p].st = "rejected" THEN "rejected"
  ELSE IF \E p \in 1..Len(promises) : promises[p].st = "fulfilled" THEN "fulfilled"
  ELSE "pending"

\* The state of Promise.all(promises).
promiseAll(promises) ==
  IF \E p \in 1..Len(promises) : promises[p].st = "rejected" THEN "rejected"
  ELSE IF \A p \in 1..Len(promises) : promises[p].st = "fulfilled" THEN "fulfilled"
  ELSE "pending"

\* A Promise.all that hands the values over last promise first.
fulfilledValuesReversed(promises) ==
  LET done == {p \in 1..Len(promises) : promises[p].st = "fulfilled"}
      order == sortAscending(done)
  IN [i \in 1..Len(order) |-> promises[order[Len(order) + 1 - i]].value[1]]

\* The values Promise.all hands over: those of the fulfilled promises, in order.
fulfilledValues(promises) ==
  LET done == {p \in 1..Len(promises) : promises[p].st = "fulfilled"}
      order == sortAscending(done)
  IN [i \in 1..Len(order) |-> promises[order[i]].value[1]]

\* The place of results[i] in results.sort((a, b) => a.port - b.port), a stable sort.
sortedPlace(rs, i) ==
  1 + Cardinality({j \in 1..Len(rs) :
                     rs[j].port < rs[i].port \/ (rs[j].port = rs[i].port /\ j < i)})

\* A scanPorts that returns results without sorting them.
sortByPortMissing(rs) == rs

sortByPort(rs) ==
  [k \in 1..Len(rs) |-> rs[CHOOSE i \in 1..Len(rs) : sortedPlace(rs, i) = k]]

\* What the engine returns: scanPorts sorts, discoverNetwork does not.
returnValue(fn, rs) == IF fn = "scanPorts" THEN sortByPort(rs) ELSE rs

NoProgress == [calls |-> 0, pct |-> 0, id |-> Undefined]
NoCall == [fn |-> "none", items |-> <<>>, concurrency |-> 1, onProgress |-> FALSE]

\* The loop from the top of iteration c: map the chunk and await, or return.
EnterChunk(fn, c, rs) ==
  IF c <= Len(chunks')
  THEN /\ chunkIdx' = c
       /\ probes' = [k \in 1..Len(chunks') |->
                       IF k = c THEN mapChunk(chunks'[c])
                       ELSE IF k < c /\ k <= Len(probes) THEN probes[k] ELSE <<>>]
       /\ pc' = "running"
       /\ returned' = returned
  ELSE /\ chunkIdx' = c
       /\ probes' = IF c = 1 THEN <<>> ELSE probes
       /\ pc' = "returned"
       /\ returned' = returnValue(fn, rs)

\* scanPorts / discoverNetwork called with c, up to the first await.
StartWith(c) ==
  /\ results' = <<>>
  /\ chunks' = chunkArray(c.items, c.concurrency)
  /\ completed' = 0
  /\ EnterChunk(c.fn, 1, <<>>)

\* A direct call of the engine.
StartScan ==
  /\ pc = "ready"
  /\ StartWith(call)
  /\ UNCHANGED <<call, progress, lastEvent, bannerVars, routeVars, applied, ui>>

\* A probe's socket or process raises an event: its promise settles and the
\* async callback of chunk.map goes on (completed++, onProgress).
ProbeSettles(c, p) ==
  /\ c \in 1..Len(probes)
  /\ p \in 1..Len(probes[c])
  /\ probes[c][p].socket = "connecting"
  /\ \E ev \in probeEvents(call.fn, chunks[c][p]), rt \in Latencies :
     LET out == probeOnEvent(call.fn, chunks[c][p], ev, rt) IN
       /\ lastEvent' = Some([chunk |-> c, pos |-> p, item |-> chunks[c][p], kind |-> ev])
       /\ probes' = [probes EXCEPT ![c][p] = out]
       /\ completed' = IF out.st = "fulfilled" THEN completed + 1 ELSE completed
       /\ progress' = IF out.st = "fulfilled" /\ call.onProgress
                      THEN [calls |-> progress.calls + 1,
                            pct |-> progressPercent(completed + 1, Len(call.items)),
                            id |-> Some(chunks[c][p])]
                      ELSE progress
       /\ pc' = IF pc = "running" /\ c = chunkIdx /\ promiseAll(probes'[c]) = "rejected"
                THEN "threw" ELSE pc
  /\ UNCHANGED <<call, chunks, chunkIdx, results, returned, bannerVars, routeVars, applied, ui>>

ProbeEvent == \E c \in 1..Len(probes) : \E p \in 1..Len(probes[c]) : ProbeSettles(c, p)

\* await Promise.all(promises) resumes: push the chunk's results, next iteration.
BatchComplete ==
  /\ pc = "running"
  /\ promiseAll(probes[chunkIdx]) = "fulfilled"
  /\ results' = results \o fulfilledValues(probes[chunkIdx])
  /\ chunks' = chunks
  /\ EnterChunk(call.fn, chunkIdx + 1, results')
  /\ UNCHANGED <<call, completed, progress, lastEvent, bannerVars, routeVars, applied, ui>>

(***************************************************************************)
(* PortScanner.getBanner: the promise, the socket and the 2-second timer.  *)
(***************************************************************************)
BannerLimit == 1024   \* if (banner.length > 1024)
MaxChunks == 2        \* data events one connection delivers at most
BigChunk == 1020      \* length of the long data chunk
MaxDetect == 2        \* longest list handed directly to detectServices

\* What a peer may send in one 'data' event.
DataChunks == {<<"S", "S", "H", "-", "2", " ">>, [i \in 1..BigChunk |-> "x"]}

NoSock ==
  [st |-> "none", socket |-> "none", banner |-> <<>>, timer |-> "none",
   value |-> Undefined, received |-> 0]

\* new Socket(), setTimeout(timeout), the handlers, setTimeout(..., 2000), connect
getBannerCall ==
  [st |-> "pending", socket |-> "connecting", banner |-> <<>>, timer |-> "armed",
   value |-> Undefined, received |-> 0]

\* banner || undefined
orUndefined(banner) == IF banner = <<>> THEN Undefined ELSE Some(banner)

\* A handler that resolves and leaves the socket as it is.
resolveWithoutDestroy(s, value) ==
  [s EXCEPT !.st = "fulfilled", !.value = IF s.st = "pending" THEN value ELSE @]

\* socket.destroy(); resolve(value): resolving a settled promise changes nothing.
destroyAndResolve(s, value) ==
  [s EXCEPT !.socket = "destroyed",
            !.st = "fulfilled",
            !.value = IF s.st = "pending" THEN value ELSE @]

\* socket.on('connect'): the probe is written, nothing is resolved.
getBannerOnConnect(s) == [s EXCEPT !.socket = "connected"]

\* A data handler that resolves the whole banner once it passes the limit.
getBannerOnDataUncut(s, data) ==
  LET got == [s EXCEPT !.banner = @ \o data, !.received = @ + 1]
  IN IF Len(got.banner) > BannerLimit THEN destroyAndResolve(got, Some(got.banner)) ELSE got

\* socket.on('data')
getBannerOnData(s, data) ==
  LET got == [s EXCEPT !.banner = @ \o data, !.received = @ + 1]
  IN IF Len(got.banner) > BannerLimit
     THEN destroyAndResolve(got, Some(SubSeq(got.banner, 1, BannerLimit)))
     ELSE got

\* socket.on('timeout')
getBannerOnTimeout(s) == destroyAndResolve(s, orUndefined(s.banner))

\* socket.on('error')
getBannerOnError(s) == destroyAndResolve(s, orUndefined(s.banner))

\* The peer ends the connection: no 'end' or 'close' handler is registered, and
\* the socket (allowHalfOpen is false) ends its side and is destroyed.
getBannerOnEnd(s) == [s EXCEPT !.socket = "destroyed"]

\* setTimeout(() => { if (!socket.destroyed) { destroy; resolve } }, 2000)
getBannerOnTimer(s) ==
  IF s.socket # "destroyed"
  THEN destroyAndResolve([s EXCEPT !.timer = "fired"], orUndefined(s.banner))
  ELSE [s EXCEPT !.timer = "fired"]

(***************************************************************************)
(* PortScanner.detectServices: one getBanner call after the other.         *)
(***************************************************************************)
NoDetect == [pc |-> "idle", input |-> <<>>, idx |-> 0, results |-> <<>>]
detectServicesCall(openPorts) ==
  [pc |-> "ready", input |-> openPorts, idx |-> 0, results |-> <<>>]

\* banner?.trim()
optionalTrim(banner) == IF banner = Undefined THEN Undefined ELSE Some(trim(banner[1]))

\* A loop that skips the closed entries instead of pushing them.
detectAdvanceOpenOnly(d, from) ==
  LET open == {i \in from..Len(d.input) : d.input[i].isOpen}
  IN [d EXCEPT !.idx = IF open = {} THEN Len(d.input) + 1 ELSE setMin(open),
               !.pc = IF open = {} THEN "returned" ELSE "awaiting"]

\* A loop that calls getBanner for every entry, open or closed.
detectAdvanceEveryEntry(d, from) ==
  [d EXCEPT !.idx = from,
            !.pc = IF from > Len(d.input) THEN "returned" ELSE "awaiting"]

\* The for loop from entry `from`: closed entries are pushed as they are, up to
\* the next open entry (await getBanner) or the end (return results).
detectAdvance(d, from) ==
  LET open == {i \in from..Len(d.input) : d.input[i].isOpen}
      stop == IF open = {} THEN Len(d.input) + 1 ELSE setMin(open)
  IN [d EXCEPT !.idx = stop,
               !.results = @ \o SubSeq(d.input, from, stop - 1),
               !.pc = IF open = {} THEN "returned" ELSE "awaiting"]

\* detectServices, from `from` on, with the getBanner call it makes.
DetectFrom(d, from) ==
  /\ detect' = detectAdvance(d, from)
  /\ sock' = IF detect'.pc = "awaiting" THEN getBannerCall ELSE sock

\* A direct call of detectServices.
DetectServicesCall ==
  /\ detect.pc = "ready"
  /\ DetectFrom(detect, 1)
  /\ UNCHANGED <<engineVars, routeVars, applied, ui>>

BannerSocketLive == detect.pc = "awaiting" /\ sock.socket \in {"connecting", "connected"}

BannerConnect ==
  /\ BannerSocketLive
  /\ sock.socket = "connecting"
  /\ detect.input[detect.idx].port \in Listeners
  /\ sock' = getBannerOnConnect(sock)
  /\ UNCHANGED <<detect, engineVars, routeVars, applied, ui>>

BannerData ==
  /\ BannerSocketLive
  /\ sock.socket = "connected"
  /\ sock.received < MaxChunks
  /\ \E data \in DataChunks : sock' = getBannerOnData(sock, data)
  /\ UNCHANGED <<detect, engineVars, routeVars, applied, ui>>

BannerSocketTimeout ==
  /\ BannerSocketLive
  /\ sock' = getBannerOnTimeout(sock)
  /\ UNCHANGED <<detect, engineVars, routeVars, applied, ui>>

BannerError ==
  /\ BannerSocketLive
  /\ sock' = getBannerOnError(sock)
  /\ UNCHANGED <<detect, engineVars, routeVars, applied, ui>>

BannerPeerClose ==
  /\ BannerSocketLive
  /\ sock.socket = "connected"
  /\ sock' = getBannerOnEnd(sock)
  /\ UNCHANGED <<detect, engineVars, routeVars, applied, ui>>

BannerTimer ==
  /\ detect.pc = "awaiting"
  /\ sock.timer = "armed"
  /\ sock' = getBannerOnTimer(sock)
  /\ UNCHANGED <<detect, engineVars, routeVars, applied, ui>>

\* await this.getBanner(...) resumes: push the entry with its banner, go on.
DetectResume ==
  /\ detect.pc = "awaiting"
  /\ sock.st = "fulfilled"
  /\ DetectFrom([detect EXCEPT !.results =
                   Append(@, [detect.input[detect.idx] EXCEPT
                                !.banner = optionalTrim(sock.value)])],
                detect.idx + 1)
  /\ UNCHANGED <<engineVars, routeVars, applied, ui>>

(***************************************************************************)
(* The API routes: POST /api/scan/port and POST /api/scan/network.         *)
(***************************************************************************)
MaxPortList == 1000            \* if (portList.length > 1000)
MaxHostList == 1000            \* if (ipList.length > 1000)
PortRouteConcurrency == 10     \* concurrency for port scanning

Response(status, success, error, data) ==
  [status |-> status, success |-> success, error |-> error, data |-> data]

\* A length check that lets every list through.
tooManyPortsNever(portList) == FALSE

tooManyPorts(portList) == Len(portList) > MaxPortList

tooManyHosts(ipList) == Len(ipList) > MaxHostList

\* A port route whose catch around parsePorts does not return.
portRouteRejectsIgnoresParseError(req) ==
  IF req.target = <<>> THEN Some(Response(400, FALSE, "Target IP address is required", <<>>))
  ELSE IF tooManyPorts(parsePorts(req.ports).ports)
  THEN Some(Response(400, FALSE, "Too many ports specified (max 1000)", <<>>))
  ELSE Undefined

\* The response that ends the port request before the scan, if any.
portRouteRejects(req) ==
  IF req.target = <<>> THEN Some(Response(400, FALSE, "Target IP address is required", <<>>))
  ELSE IF ~parsePorts(req.ports).ok
  THEN Some(Response(400, FALSE, parsePorts(req.ports).error, <<>>))
  ELSE IF tooManyPorts(parsePorts(req.ports).ports)
  THEN Some(Response(400, FALSE, "Too many ports specified (max 1000)", <<>>))
  ELSE Undefined

\* The response that ends the network request before the scan, if any; what
\* parseIPRange throws lands in the outer catch.
networkRouteRejects(req) ==
  IF req.target = <<>> THEN Some(Response(400, FALSE, "Target IP range is required", <<>>))
  ELSE IF ~parseIPRange(req.target).ok
  THEN Some(Response(500, FALSE, parseIPRange(req.target).error, <<>>))
  ELSE IF Len(generateIPList(parseIPRange(req.target))) = 0
  THEN Some(Response(400, FALSE, "No valid IP addresses in range", <<>>))
  ELSE IF tooManyHosts(generateIPList(parseIPRange(req.target)))
  THEN Some(Response(400, FALSE, "IP range too large (max 1000 hosts)", <<>>))
  ELSE Undefined

\* scanResults.map(result => ({ ip, hostname, isActive, responseTime, ports, lastScanned }))
toDevices(scanResults) ==
  [i \in 1..Len(scanResults) |->
     [ip |-> scanResults[i].ip, hostname |-> Undefined,
      isActive |-> scanResults[i].isActive, responseTime |-> scanResults[i].responseTime,
      ports |-> <<>>, lastScanned |-> "Date"]]

NoResponse == Response(0, FALSE, "", <<>>)

Respond(r) ==
  /\ response' = r
  /\ route' = [route EXCEPT !.pc = "responded"]

\* The route calls the engine with c and awaits it.
RouteScans(c) ==
  /\ call' = c
  /\ StartWith(c)
  /\ route' = [route EXCEPT !.pc = "scanning"]
  /\ UNCHANGED <<progress, lastEvent, response, bannerVars>>

\* POST /api/scan/port, up to the first await or the early return.
PortRoutePost ==
  /\ route.pc = "received"
  /\ route.req.kind = "port"
  /\ IF portRouteRejects(route.req) # Undefined
     THEN Respond(portRouteRejects(route.req)[1]) /\ UNCHANGED <<engineVars, bannerVars>>
     ELSE RouteScans([fn |-> "scanPorts", items |-> parsePorts(route.req.ports).ports,
                      concurrency |-> PortRouteConcurrency, onProgress |-> TRUE])
  /\ UNCHANGED <<applied, ui>>

\* await scanPorts resumes: the banner pass if a port is open, else the response.
PortRouteAfterScan ==
  /\ route.pc = "scanning"
  /\ route.req.kind = "port"
  /\ pc \in {"returned", "threw"}
  /\ IF pc = "threw"
     THEN Respond(Response(500, FALSE, "Port scan failed", <<>>)) /\ UNCHANGED bannerVars
     ELSE IF \E i \in 1..Len(returned) : returned[i].isOpen
     THEN /\ DetectFrom(detectServicesCall(returned), 1)
          /\ route' = [route EXCEPT !.pc = "detecting"]
          /\ UNCHANGED response
     ELSE Respond(Response(200, TRUE, "", returned)) /\ UNCHANGED bannerVars
  /\ UNCHANGED <<engineVars, applied, ui>>

\* await detectServices resumes: the response with the enhanced results.
PortRouteAfterDetect ==
  /\ route.pc = "detecting"
  /\ detect.pc = "returned"
  /\ Respond(Response(200, TRUE, "", detect.results))
  /\ UNCHANGED <<engineVars, bannerVars, applied, ui>>

\* POST /api/scan/network, up to the first await or the early return.
NetworkRoutePost ==
  /\ route.pc = "received"
  /\ route.req.kind = "network"
  /\ IF networkRouteRejects(route.req) # Undefined
     THEN Respond(networkRouteRejects(route.req)[1]) /\ UNCHANGED <<engineVars, bannerVars>>
     ELSE RouteScans([fn |-> "discoverNetwork",
                      items |-> generateIPList(parseIPRange(route.req.target)),
                      concurrency |-> route.req.concurrency, onProgress |-> TRUE])
  /\ UNCHANGED <<applied, ui>>

\* await discoverNetwork resumes: the devices are returned.
NetworkRouteAfterScan ==
  /\ route.pc = "scanning"
  /\ route.req.kind = "network"
  /\ pc \in {"returned", "threw"}
  /\ IF pc = "threw"
     THEN Respond(Response(500, FALSE, "Network scan failed", <<>>))
     ELSE Respond(Response(200, TRUE, "", toDevices(returned)))
  /\ UNCHANGED <<engineVars, bannerVars, applied, ui>>

(***************************************************************************)
(* Specifications.                                                         *)
(***************************************************************************)
PortLists == SeqsUpTo(PortSample, MaxLen)
HostLists == SeqsUpTo(HostSample, MaxLen)

EngineCalls ==
  [fn : {"scanPorts"}, items : PortLists, concurrency : 1..MaxConc, onProgress : BOOLEAN]
    \cup [fn : {"discoverNetwork"}, items : HostLists, concurrency : 1..MaxConc,
          onProgress : BOOLEAN]

EngineIdle ==
  /\ chunks = <<>>
  /\ chunkIdx = 0
  /\ probes = <<>>
  /\ completed = 0
  /\ progress = NoProgress
  /\ results = <<>>
  /\ returned = <<>>
  /\ lastEvent = Undefined

BannerIdle == detect = NoDetect /\ sock = NoSock

NoRoute == [pc |-> "none", req |-> [kind |-> "none"]]
RouteIdle == route = NoRoute /\ response = NoResponse

NoApplied == [fn |-> "none"]
NoUi == [mounted |-> FALSE]

\* Direct calls of scanPorts and discoverNetwork.
Init ==
  /\ call \in EngineCalls /\ pc = "ready" /\ EngineIdle /\ BannerIdle /\ RouteIdle
  /\ applied = NoApplied
  /\ ui = NoUi

Next ==
  \/ StartScan
  \/ ProbeEvent
  \/ BatchComplete

Spec == Init /\ [][Next]_vars

\* A connecting socket raises 'connect', 'timeout' or 'error', and a ping command
\* ends: the event loop runs every such event's handler.
FairSpec == Spec /\ WF_vars(ProbeEvent)

\* scanPorts as the port route calls it for the ports 1-40.
ProgressLen == 40
ProgressCalls ==
  [fn : {"scanPorts"}, items : {[k \in 1..ProgressLen |-> k]},
   concurrency : {PortRouteConcurrency}, onProgress : {TRUE}]

ProgressInit ==
  /\ call \in ProgressCalls /\ pc = "ready" /\ EngineIdle /\ BannerIdle /\ RouteIdle
  /\ applied = NoApplied
  /\ ui = NoUi

ProgressSpec == ProgressInit /\ [][Next]_vars

\* Direct calls of detectServices, on records that scanPort returned.
DetectSample ==
  {scanPortOnConnect(22, 12).value[1], scanPortOnConnect(80, 0).value[1],
   scanPortOnTimeout(9999).value[1]}

BannerInit ==
  /\ detect \in {detectServicesCall(openPorts) : openPorts \in SeqsUpTo(DetectSample, MaxDetect)}
  /\ sock = NoSock
  /\ call = NoCall /\ pc = "idle" /\ EngineIdle
  /\ RouteIdle
  /\ applied = NoApplied
  /\ ui = NoUi

BannerNext ==
  \/ DetectServicesCall
  \/ BannerConnect
  \/ BannerData
  \/ BannerSocketTimeout
  \/ BannerError
  \/ BannerPeerClose
  \/ BannerTimer
  \/ DetectResume

BannerSpec == BannerInit /\ [][BannerNext]_vars

\* Timers fire and continuations run; no socket event is promised.
FairBannerSpec ==
  BannerSpec /\ WF_vars(DetectServicesCall) /\ WF_vars(BannerTimer) /\ WF_vars(DetectResume)

\* The requests the routes receive.
Text22 == <<"2", "2">>
Text22c80 == <<"2", "2", ",", "8", "0">>
Text9999 == <<"9", "9", "9", "9">>
Text1to1001 == <<"1", "-", "1", "0", "0", "1">>
Text80to22 == <<"8", "0", "-", "2", "2">>
TextAbc == <<"a", "b", "c">>
TextAbcXyz == <<"a", "b", "c", ",", "x", "y", "z">>

TextRange3 == Host1 \o <<"-">> \o <<"1", "0", ".", "0", ".", "0", ".", "3">>
TextReversed == <<"1", "0", ".", "0", ".", "0", ".", "3">> \o <<"-">> \o Host1
TextSlash30 == <<"1", "0", ".", "0", ".", "0", ".", "0", "/", "3", "0">>
TextSlash31 == <<"1", "0", ".", "0", ".", "0", ".", "0", "/", "3", "1">>
TextSlash22 == <<"1", "0", ".", "0", ".", "0", ".", "0", "/", "2", "2">>
TextSlash33 == <<"1", "0", ".", "0", ".", "0", ".", "0", "/", "3", "3">>
TextBanana == <<"b", "a", "n", "a", "n", "a">>
TextShell == <<"a", ";", "b", "-", "c">>
TextZeros == <<"0", "1", "0", ".", "0", ".", "0", ".", "0", "1">>

PortRequests ==
  [kind : {"port"}, target : {<<>>, Host1},
   ports : {Text22, Text22c80, Text9999, Text1to1001, Text80to22, TextAbc, TextAbcXyz},
   concurrency : {0}]

NetworkRequests ==
  [kind : {"network"},
   target : {<<>>, Host1, TextRange3, TextReversed, TextSlash30, TextSlash31, TextSlash22,
             TextSlash33, TextBanana, TextShell, TextZeros},
   ports : {<<>>}, concurrency : {1, 2, 50}]

RouteInit ==
  /\ route \in [pc : {"received"}, req : PortRequests \cup NetworkRequests]
  /\ response = NoResponse
  /\ call = NoCall /\ pc = "idle" /\ EngineIdle
  /\ BannerIdle
  /\ applied = NoApplied
  /\ ui = NoUi

RouteNext ==
  \/ PortRoutePost
  \/ NetworkRoutePost
  \/ ProbeEvent
  \/ BatchComplete
  \/ PortRouteAfterScan
  \/ NetworkRouteAfterScan
  \/ BannerConnect
  \/ BannerData
  \/ BannerSocketTimeout
  \/ BannerError
  \/ BannerPeerClose
  \/ BannerTimer
  \/ DetectResume
  \/ PortRouteAfterDetect

RouteSpec == RouteInit /\ [][RouteNext]_vars

(***************************************************************************)
(* Direct calls of parseIPRange, generateIPList and parsePorts.  The call  *)
(* is kept in the variable applied: its argument, where it stands, the     *)
(* range parseIPRange returned or the Error it threw, what generateIPList  *)
(* made of the range, and what parsePorts returned or threw.               *)
(***************************************************************************)
MaxListed == 1024
MaxSpan == 5
MaxTokens == 3

chars(s) == [i \in 1..Len(s) |-> SubSeq(s, i, i)]

\* The text of the address with these four octets.
dotted(o) ==
  decimal(o[1]) \o <<".">> \o decimal(o[2]) \o <<".">> \o decimal(o[3]) \o <<".">>
    \o decimal(o[4])

\* The octets of the address d after the one with the octets o.
bump(o, d) ==
  LET v4 == o[4] + d
      v3 == o[3] + v4 \div 256
      v2 == o[2] + v3 \div 256
  IN <<o[1] + v2 \div 256, v2 % 256, v3 % 256, v4 % 256>>

RECURSIVE joinWith(_, _)
joinWith(parts, sep) ==
  IF Len(parts) = 0 THEN <<>>
  ELSE IF Len(parts) = 1 THEN parts[1]
  ELSE parts[1] \o sep \o joinWith(Tail(parts), sep)

NoPorts == PortsError("")
NoRange == RangeError("")

Called(fn, arg) ==
  [fn |-> fn, arg |-> arg, pc |-> "called", range |-> NoRange, length |-> NaNW,
   ips |-> Undefined, ports |-> NoPorts, prefix |-> 0, mask |-> Undefined, cidr |-> 0]

\* The array generateIPList builds is kept when it has at most MaxListed entries;
\* of a longer one only the number of addresses its loop pushes.
ipListFits(range) ==
  LET length == ipListLength(range) IN length.hi = 0 /\ length.lo <= MaxListed

ParseIPRangeCall ==
  /\ applied.fn = "parseIPRange"
  /\ applied.pc = "called"
  /\ LET range == parseIPRange(applied.arg)
     IN applied' = [applied EXCEPT !.pc = IF range.ok THEN "parsed" ELSE "threw",
                                   !.range = range]
  /\ UNCHANGED <<engineVars, bannerVars, routeVars, ui>>

GenerateIPListCall ==
  /\ applied.fn \in {"parseIPRange", "generateIPList"}
  /\ applied.pc = "parsed"
  /\ applied' = [applied EXCEPT !.pc = "listed",
                                !.length = ipListLength(applied.range),
                                !.ips = IF ipListFits(applied.range)
                                        THEN Some(generateIPList(applied.range))
                                        ELSE Undefined]
  /\ UNCHANGED <<engineVars, bannerVars, routeVars, ui>>

ParsePortsCall ==
  /\ applied.fn = "parsePorts"
  /\ applied.pc = "called"
  /\ LET ports == parsePorts(applied.arg)
     IN applied' = [applied EXCEPT !.pc = IF ports.ok THEN "returned" ELSE "threw",
                                   !.ports = ports]
  /\ UNCHANGED <<engineVars, bannerVars, routeVars, ui>>

(***************************************************************************)
(* IPUtils: cidrToSubnetMask and subnetMaskToCIDR.  The class's ipToInt and *)
(* intToIP have the same bodies as those of NetworkUtils.                   *)
(***************************************************************************)
cidrToSubnetMask(prefix) ==
  IF prefix < 0 \/ prefix > 32 THEN [ok |-> FALSE, mask |-> Undefined]
  ELSE LET mask == shiftLeft(AllOnes, N(32 - prefix))
       IN [ok |-> TRUE, mask |-> intToIP(unsignedShiftRight(mask, N(0)))]

\* while (temp & 0x80000000) { prefix++; temp <<= 1; }
RECURSIVE leadingOnes(_, _)
leadingOnes(temp, prefix) ==
  IF toInt(bitAnd(temp, W(Half \div 2, 0))) # 0
  THEN leadingOnes(shiftLeft(temp, N(1)), prefix + 1)
  ELSE prefix

subnetMaskToCIDR(mask) == leadingOnes(ipToInt(mask), 0)

CidrToSubnetMaskCall ==
  /\ applied.fn = "cidrToSubnetMask"
  /\ applied.pc = "called"
  /\ LET subnet == cidrToSubnetMask(applied.prefix)
     IN applied' = [applied EXCEPT !.pc = IF subnet.ok THEN "returned" ELSE "threw",
                                   !.mask = subnet.mask]
  /\ UNCHANGED <<engineVars, bannerVars, routeVars, ui>>

\* The mask cidrToSubnetMask returned is handed to subnetMaskToCIDR.
SubnetMaskToCIDRCall ==
  /\ applied.fn = "cidrToSubnetMask"
  /\ applied.pc = "returned"
  /\ applied' = [applied EXCEPT !.pc = "converted", !.cidr = subnetMaskToCIDR(applied.mask)]
  /\ UNCHANGED <<engineVars, bannerVars, routeVars, ui>>

\* The arguments: CIDR blocks of every prefix length, dash ranges, single addresses
\* and texts that are none of these.
CidrOctets == {<<192, 168, 1, 0>>, <<10, 0, 0, 5>>, <<200, 1, 2, 3>>, <<0, 0, 0, 0>>,
               <<255, 255, 255, 255>>, <<127, 255, 255, 255>>}
Prefixes == 0..33
CidrTexts == {dotted(o) \o <<"/">> \o decimal(p) : o \in CidrOctets, p \in Prefixes}
MaskPrefixes == Prefixes \cup {0 - 1}

DashOctets == {<<10, 0, 0, 1>>, <<127, 255, 255, 254>>, <<192, 168, 1, 250>>,
               <<255, 255, 255, 249>>, <<0, 0, 0, 0>>}
DashTexts ==
  {dotted(o) \o <<"-">> \o dotted(bump(o, d)) : o \in DashOctets, d \in 0..MaxSpan}
    \cup {dotted(bump(o, d)) \o <<"-">> \o dotted(o) : o \in DashOctets, d \in 1..MaxSpan}
    \cup {chars(" 10.0.0.1 - 10.0.0.3 "), chars("10.0.0.250-10.0.1.5"),
          chars("1.2.3.4-1.2.3.4")}

OtherRangeTexts ==
  {chars("10.0.0.1"), chars(" 192.168.1.7 "), chars("255.255.255.255"), chars("0.0.0.0"),
   chars("01.02.03.04"), chars("banana"), chars("256.1.1.1"), chars("1.2.3"),
   chars("1.2.3.4.5"), chars(""), chars("10.0.0.a"), chars("banana/24"),
   chars("10.0.0.1/abc"), chars("10.0.0.1/"), chars("/24"), chars("10.0.0/24"),
   chars("300.1.1.1/24"), chars("10.0.0.0/-1"), chars("10.0.0.0/24/7"), chars("a-b"),
   chars("10.0.0.1-banana"), chars("banana-10.0.0.1"), chars("10.0.0.1-"),
   chars("-10.0.0.1"), chars("10.0.0.1-10.0.0.999"), chars("1.2.3-1.2.4")}

RangeTexts == CidrTexts \cup DashTexts \cup OtherRangeTexts

\* Ranges handed to generateIPList directly.
ListRanges ==
  {NetworkRange(dotted(o), dotted(bump(o, d)), <<>>, N(d + 1)) :
     o \in DashOctets, d \in 0..MaxSpan}
    \cup {NetworkRange(dotted(bump(o, 1)), dotted(o), <<>>, N(0)) : o \in DashOctets}
    \cup {NetworkRange(chars("10.0.0.0"), chars("10.0.3.255"), <<>>, N(1024)),
          NetworkRange(chars("0.0.0.0"), chars("255.255.255.255"), <<>>, N(0))}

\* Port specifications: the keyword, single ports, dash forms and comma lists.
PortTokens == {chars("22"), chars("80"), chars("abc"), chars("0"), chars("70000"),
               chars(" 443 ")}
PortBounds == {chars("1"), chars("3"), chars("40"), chars("abc"), chars("0"),
               chars("65535"), chars("65536"), chars("")}
PortTexts ==
  {joinWith(tokens, <<",">>) : tokens \in SeqsUpTo(PortTokens, MaxTokens) \ {<<>>}}
    \cup {a \o <<"-">> \o b : a \in PortBounds, b \in PortBounds}
    \cup {chars("common"), chars(" COMMON "), chars("Common"), chars("1"), chars("65535"),
          chars("65536"), chars("-5"), chars("22abc"), chars("12.5"), chars(" 8080 "),
          chars("+80"), chars(""), chars("1-3-9"), chars("1 - 3"), chars("1-3,5"),
          chars("-5,80"), chars("80abc,443"), chars("22,80,80,443"), chars("1-5x"),
          chars("1x-5"), chars("1-1001"), chars("8080,443,22,21"), chars(","),
          chars("22,"), chars("common,80"), chars("22,80-90"), chars("abc,80,xyz"),
          chars("abc,xyz"), chars("70000"), chars("0-70000"), chars("abc")}

PureCalls ==
  {Called("parseIPRange", text) : text \in RangeTexts}
    \cup {[Called("generateIPList", <<>>) EXCEPT !.pc = "parsed", !.range = range] :
            range \in ListRanges}
    \cup {Called("parsePorts", text) : text \in PortTexts}
    \cup {[Called("cidrToSubnetMask", <<>>) EXCEPT !.prefix = p] : p \in MaskPrefixes}

PureInit ==
  /\ applied \in PureCalls
  /\ call = NoCall /\ pc = "idle" /\ EngineIdle
  /\ BannerIdle
  /\ RouteIdle
  /\ ui = NoUi

PureNext ==
  \/ ParseIPRangeCall
  \/ GenerateIPListCall
  \/ ParsePortsCall
  \/ CidrToSubnetMaskCall
  \/ SubnetMaskToCIDRCall

PureSpec == PureInit /\ [][PureNext]_vars

(***************************************************************************)
(* One scanPort call and the events of its socket.  Each handler destroys  *)
(* the socket and calls resolve; the handlers are run here for whatever    *)
(* events the socket raises, also after the first.                         *)
(***************************************************************************)
MaxEvents == 3

\* A resolve that replaces the value of a promise that is already settled.
resolveOverwrites(promise, outcome) == outcome

\* resolve(value) in a handler: the first call settles the promise, a later call
\* changes nothing.
resolveOnce(promise, outcome) ==
  IF promise.st = "pending" THEN outcome ELSE [promise EXCEPT !.socket = outcome.socket]

ScanPortCalls ==
  {[fn |-> "scanPort", arg |-> port, pc |-> "called", promise |-> Pending, events |-> <<>>] :
     port \in PortSample}

\* new Socket(), the three handlers, socket.connect(port, ip)
ScanPortCall ==
  /\ applied.fn = "scanPort"
  /\ applied.pc = "called"
  /\ applied' = [applied EXCEPT !.pc = "connecting"]
  /\ UNCHANGED <<engineVars, bannerVars, routeVars, ui>>

\* The socket raises 'connect', 'timeout' or 'error' and its handler runs.
ScanPortEvent ==
  /\ applied.fn = "scanPort"
  /\ applied.pc = "connecting"
  /\ Len(applied.events) < MaxEvents
  /\ \E ev \in scanPortEvents(applied.arg), rt \in Latencies :
       applied' = [applied EXCEPT
                     !.promise = resolveOnce(@, scanPortOnEvent(applied.arg, ev, rt)),
                     !.events = Append(@, [kind |-> ev, responseTime |-> rt])]
  /\ UNCHANGED <<engineVars, bannerVars, routeVars, ui>>

ProbeInit ==
  /\ applied \in ScanPortCalls
  /\ call = NoCall /\ pc = "idle" /\ EngineIdle
  /\ BannerIdle
  /\ RouteIdle
  /\ ui = NoUi

ProbeNext ==
  \/ ScanPortCall
  \/ ScanPortEvent

ProbeSpec == ProbeInit /\ [][ProbeNext]_vars

(***************************************************************************)
(* chunkArray, one iteration of its for loop a step, for the sizes the     *)
(* callers can hand over: scanPorts and discoverNetwork call it with their *)
(* concurrency before they start a probe.  Of a list of chunks that keeps  *)
(* growing the first MaxLoop chunks are kept, and of a loop variable that   *)
(* keeps falling the values down to -MaxLoop; turn tells one iteration from *)
(* the next.                                                               *)
(***************************************************************************)
MaxLoop == 4

Max(a, b) == IF a >= b THEN a ELSE b

\* array.slice(start, end)
slice(array, start, end) ==
  LET from == IF start < 0 THEN Max(Len(array) + start, 0) ELSE Min(start, Len(array))
      to == IF end < 0 THEN Max(Len(array) + end, 0) ELSE Min(end, Len(array))
  IN SubSeq(array, from + 1, to)

ChunkSizes == (0 - 1)..MaxConc

ChunkCalls ==
  [fn : {"chunkArray"}, array : HostLists, size : ChunkSizes, i : {0},
   chunks : {<<>>}, turn : {0}, pc : {"loop"}]
    \cup [fn : {"chunkArray"}, array : PortLists \ {<<>>}, size : ChunkSizes, i : {0},
          chunks : {<<>>}, turn : {0}, pc : {"loop"}]

\* for (...; i < array.length; i += size) chunks.push(array.slice(i, i + size))
chunkArrayLoop ==
  /\ applied.fn = "chunkArray"
  /\ applied.pc = "loop"
  /\ applied.i < Len(applied.array)
  /\ applied' = [applied EXCEPT
                   !.chunks = IF Len(@) < MaxLoop
                              THEN Append(@, slice(applied.array, applied.i,
                                                   applied.i + applied.size))
                              ELSE @,
                   !.i = Max(@ + applied.size, 0 - MaxLoop),
                   !.turn = 1 - @]
  /\ UNCHANGED <<engineVars, bannerVars, routeVars, ui>>

\* i < array.length is false: return chunks
chunkArrayReturn ==
  /\ applied.fn = "chunkArray"
  /\ applied.pc = "loop"
  /\ applied.i >= Len(applied.array)
  /\ applied' = [applied EXCEPT !.pc = "returned"]
  /\ UNCHANGED <<engineVars, bannerVars, routeVars, ui>>

ChunkInit ==
  /\ applied \in ChunkCalls
  /\ call = NoCall /\ pc = "idle" /\ EngineIdle
  /\ BannerIdle
  /\ RouteIdle
  /\ ui = NoUi

ChunkNext ==
  \/ chunkArrayLoop
  \/ chunkArrayReturn

ChunkSpec == ChunkInit /\ [][ChunkNext]_vars

\* The loop is synchronous code: it runs on until it returns.
FairChunkSpec == ChunkSpec /\ WF_vars(chunkArrayLoop) /\ WF_vars(chunkArrayReturn)

(***************************************************************************)
(* The NetworkScanner component: its React state, one run of startScan     *)
(* from await to await, and stopScan.  A callback made by useCallback sees *)
(* the currentSession of the render that made it.  The requests the run    *)
(* has sent are kept in sent; stopped and atStop record that stopScan was  *)
(* invoked during the run, and what the state was then.                    *)
(***************************************************************************)
MaxDevices == 2
MaxScans == 2

Configurations == [scanType : {"network", "port", "both"}, includeHostnames : BOOLEAN]

DeviceLists ==
  {devices \in SeqsUpTo([ip : HostSample, isActive : BOOLEAN], MaxDevices) :
     \A i, j \in 1..Len(devices) : i # j => devices[i].ip # devices[j].ip}

\* useState(null), useState([]), useState(false), useState(null)
Mounted ==
  [mounted |-> TRUE, currentSession |-> Undefined, scanResults |-> <<>>,
   isScanning |-> FALSE, stage |-> Undefined,
   run |-> [pc |-> "idle", config |-> Undefined, closure |-> Undefined, devices |-> <<>>,
            idx |-> 0],
   sent |-> <<>>, scans |-> 0, stopped |-> FALSE, atStop |-> Undefined]

\* setScanProgress(prev => prev ? { ...prev, stage } : null)
setStage(u, stage) == [u EXCEPT !.stage = IF @ = Undefined THEN @ ELSE Some(stage)]

\* if (currentSession) setCurrentSession(prev => prev ? { ...prev, isActive: false,
\* endTime: new Date() } : null), with the currentSession the callback was made with
endSession(u, closure) ==
  IF closure = Undefined \/ u.currentSession = Undefined THEN u
  ELSE [u EXCEPT !.currentSession = Some([@[1] EXCEPT !.isActive = FALSE, !.endTime = TRUE])]

\* finally { setIsScanning(false); if (currentSession) { ... } }
finally(u) ==
  [endSession([u EXCEPT !.isScanning = FALSE], u.run.closure) EXCEPT !.run.pc = "finished"]

\* catch (error) { setScanProgress(... stage: 'error') } finally { ... }
catch(u) == finally(setStage(u, "error"))

activeDevices(u) == SelectSeq(u.run.devices, LAMBDA d : d.isActive)

\* await fetch(url, ...) for the idx-th active device
fetch(u, url, idx) ==
  [u EXCEPT !.sent = Append(@, [url |-> url, target |-> activeDevices(u)[idx].ip]),
            !.run.pc = url, !.run.idx = idx]

\* setScanProgress(... stage: 'completed' ...); setActiveTab("results"); finally
complete(u) == finally(setStage(u, "completed"))

\* if (config.includeHostnames): the first hostname request, or the end
resolveHostnames(u) ==
  IF ~u.run.config[1].includeHostnames THEN complete(u)
  ELSE IF activeDevices(u) = <<>> THEN complete(setStage(u, "resolving"))
  ELSE fetch(setStage(u, "resolving"), "/api/scan/hostname", 1)

\* if (config.scanType === 'port' || 'both'): the first port request, or go on
scanDevicePorts(u) ==
  IF u.run.config[1].scanType \notin {"port", "both"} THEN resolveHostnames(u)
  ELSE IF activeDevices(u) = <<>> THEN resolveHostnames(setStage(u, "port-scanning"))
  ELSE fetch(setStage(u, "port-scanning"), "/api/scan/port", 1)

\* setScanResults(prev => prev.map(d => d.ip === device.ip ? { ...d, [field]: data } : d))
setDeviceField(u, ip, field) ==
  [u EXCEPT !.scanResults =
     [i \in 1..Len(@) |-> IF @[i].ip = ip THEN [@[i] EXCEPT ![field] = TRUE] ELSE @[i]]]

\* startScan(config), up to await fetch('/api/scan/network', ...)
startScan ==
  /\ ui.mounted
  /\ ~ui.isScanning
  /\ ui.run.pc \in {"idle", "finished"}
  /\ ui.scans < MaxScans
  /\ \E config \in Configurations :
       ui' = [ui EXCEPT
                !.isScanning = TRUE,
                !.currentSession = Some([id |-> ui.scans + 1, isActive |-> TRUE,
                                         endTime |-> FALSE]),
                !.scanResults = <<>>,
                !.stage = Some("discovering"),
                !.run = [pc |-> "/api/scan/network", config |-> Some(config),
                         closure |-> ui.currentSession, devices |-> <<>>, idx |-> 0],
                !.sent = <<[url |-> "/api/scan/network", target |-> <<>>]>>,
                !.scans = @ + 1,
                !.stopped = FALSE,
                !.atStop = Undefined]
  /\ UNCHANGED <<engineVars, bannerVars, routeVars, applied>>

\* await fetch('/api/scan/network') resumes: a failure, or the devices found.
networkResponse ==
  /\ ui.mounted
  /\ ui.run.pc = "/api/scan/network"
  /\ \/ ui' = catch(ui)
     \/ \E devices \in DeviceLists :
          ui' = scanDevicePorts(
                  [ui EXCEPT !.run.devices = devices,
                             !.scanResults =
                                [i \in 1..Len(devices) |->
                                   [ip |-> devices[i].ip, isActive |-> devices[i].isActive,
                                    ports |-> FALSE, hostname |-> FALSE]]])
  /\ UNCHANGED <<engineVars, bannerVars, routeVars, applied>>

\* await fetch('/api/scan/port') resumes: the device's ports on success, then the
\* next active device or the hostnames.
portResponse ==
  /\ ui.mounted
  /\ ui.run.pc = "/api/scan/port"
  /\ \E ok \in BOOLEAN :
       LET device == activeDevices(ui)[ui.run.idx]
           u == IF ok THEN setDeviceField(ui, device.ip, "ports") ELSE ui
       IN ui' = IF ui.run.idx < Len(activeDevices(ui))
                THEN fetch(u, "/api/scan/port", ui.run.idx + 1)
                ELSE resolveHostnames(u)
  /\ UNCHANGED <<engineVars, bannerVars, routeVars, applied>>

\* await fetch('/api/scan/hostname') resumes.
hostnameResponse ==
  /\ ui.mounted
  /\ ui.run.pc = "/api/scan/hostname"
  /\ \E ok \in BOOLEAN :
       LET device == activeDevices(ui)[ui.run.idx]
           u == IF ok THEN setDeviceField(ui, device.ip, "hostname") ELSE ui
       IN ui' = IF ui.run.idx < Len(activeDevices(ui))
                THEN fetch(u, "/api/scan/hostname", ui.run.idx + 1)
                ELSE complete(u)
  /\ UNCHANGED <<engineVars, bannerVars, routeVars, applied>>

\* stopScan(), made by the render that followed startScan's state updates.
stopScan ==
  /\ ui.mounted
  /\ ui.isScanning
  /\ LET u == endSession(setStage([ui EXCEPT !.isScanning = FALSE], "completed"),
                         ui.currentSession)
     IN ui' = [u EXCEPT !.stopped = TRUE,
                        !.atStop = Some([sent |-> u.sent, scanResults |-> u.scanResults,
                                         stage |-> u.stage])]
  /\ UNCHANGED <<engineVars, bannerVars, routeVars, applied>>

UiInit ==
  /\ ui = Mounted
  /\ call = NoCall /\ pc = "idle" /\ EngineIdle
  /\ BannerIdle
  /\ RouteIdle
  /\ applied = NoApplied

UiNext ==
  \/ startScan
  \/ networkResponse
  \/ portResponse
  \/ hostnameResponse
  \/ stopScan

UiSpec == UiInit /\ [][UiNext]_vars

(***************************************************************************)
(* Properties of the scheduler.                                            *)
(***************************************************************************)
keyOf(fn, r) == IF fn = "scanPorts" THEN r.port ELSE r.ip
isPositive(fn, r) == IF fn = "scanPorts" THEN r.isOpen ELSE r.isActive

ReturnedKeys == [i \in 1..Len(returned) |-> keyOf(call.fn, returned[i])]

InFlight ==
  SumSeq([c \in 1..Len(probes) |->
            Cardinality({p \in 1..Len(probes[c]) : probes[c][p].st = "pending"})])

ChunkOffset(c) == SumSeq([k \in 1..(c - 1) |-> Len(chunks[k])])

\* C1: when scanPorts or discoverNetwork returns, the returned list holds exactly
\* one record per input item: the same length, every input item as often as in the
\* input, and no record of anything else, whatever the probes' outcomes were.
C1_OneRecordPerItem ==
  pc = "returned" =>
    /\ Len(returned) = Len(call.items)
    /\ \A i \in 1..Len(call.items) :
         Count(call.items[i], ReturnedKeys) = Count(call.items[i], call.items)
    /\ \A i \in 1..Len(returned) : \E j \in 1..Len(call.items) :
         call.items[j] = ReturnedKeys[i]

\* A scan of several batches returned, with a positive and a negative record.
C1_Witness ==
  /\ pc = "returned"
  /\ Len(chunks) >= 2
  /\ \E i, j \in 1..Len(returned) :
       isPositive(call.fn, returned[i]) /\ ~isPositive(call.fn, returned[j])

\* C2: at every moment of a run the number of probes started and not yet
\* completed is at most the concurrency.
C2_InFlightAtMostC == pc \notin {"idle", "ready"} => InFlight <= call.concurrency

\* A batch of C >= 2 probes was started while items wait for the next batch; one
\* probe has completed, the others are in flight, and no waiting item was started.
C2_Witness ==
  /\ pc = "running"
  /\ call.concurrency >= 2
  /\ Len(call.items) > call.concurrency
  /\ InFlight = call.concurrency - 1
  /\ completed = 1

\* C3: the input is split into consecutive batches of C items (the last one
\* holding the rest), and no probe of a batch is started before every probe of
\* each earlier batch has completed and its result is in results.
C3_BatchesInOrder ==
  pc \notin {"idle", "ready"} =>
    /\ Flatten(chunks) = call.items
    /\ \A c \in 1..Len(chunks) :
         Len(chunks[c]) = IF c < Len(chunks) THEN call.concurrency
                          ELSE Len(call.items) - call.concurrency * (Len(chunks) - 1)
    /\ \A c \in 1..Len(probes) : probes[c] # <<>> =>
         \A b \in 1..(c - 1) :
           /\ Len(probes[b]) = Len(chunks[b])
           /\ Len(results) >= ChunkOffset(b + 1)
           /\ \A p \in 1..Len(chunks[b]) :
                /\ probes[b][p].st = "fulfilled"
                /\ results[ChunkOffset(b) + p] = probes[b][p].value[1]

\* A probe of the second batch is in flight after a first batch of several items.
C3_Witness ==
  /\ pc = "running"
  /\ chunkIdx = 2
  /\ Len(chunks[1]) >= 2
  /\ \E p \in 1..Len(probes[2]) : probes[2][p].st = "pending"

\* C5: the list scanPorts returns is sorted ascending by port.
C5_SortedByPort ==
  (pc = "returned" /\ call.fn = "scanPorts") =>
    \A i \in 1..(Len(returned) - 1) : returned[i].port <= returned[i + 1].port

\* scanPorts returned for an input that was not sorted, whose last probe to
\* complete was not that of the last item.
C5_Witness ==
  /\ pc = "returned"
  /\ call.fn = "scanPorts"
  /\ Len(returned) >= 2
  /\ \E i \in 1..(Len(call.items) - 1) : call.items[i] > call.items[i + 1]
  /\ lastEvent # Undefined
  /\ ChunkOffset(lastEvent[1].chunk) + lastEvent[1].pos < Len(call.items)

\* C6: no promise of scanPort or pingHost is ever rejected and the scan never
\* throws: a failure event (timeout, error, the ping command failing or showing
\* no reply) leaves the probe fulfilled with a negative record.
C6_ProbesNeverReject ==
  /\ pc # "threw"
  /\ \A c \in 1..Len(probes) : \A p \in 1..Len(probes[c]) : probes[c][p].st # "rejected"
  /\ (lastEvent # Undefined /\ lastEvent[1].kind \notin {"connect", "reply"}) =>
       LET pr == probes[lastEvent[1].chunk][lastEvent[1].pos]
       IN pr.st = "fulfilled" /\ ~isPositive(call.fn, pr.value[1])

\* A scan of several ports returned although its last event was a socket error.
C6_Witness ==
  /\ pc = "returned"
  /\ Len(call.items) >= 2
  /\ lastEvent # Undefined
  /\ lastEvent[1].kind = "error"

NoListenerResolved ==
  call.fn = "scanPorts" =>
    \A c \in 1..Len(probes) : \A p \in 1..Len(probes[c]) :
      chunks[c][p] \notin Listeners =>
        probes[c][p].st = "fulfilled" /\ ~probes[c][p].value[1].isOpen

\* C7: every scanPort call on a port with no listener eventually resolves with
\* isOpen = false: again and again no such call is pending.
C7_NoListenerEventuallyClosed == []<>NoListenerResolved

\* The probe of a port without listener was resolved by the socket's timeout.
C7_Witness ==
  /\ lastEvent # Undefined
  /\ call.fn = "scanPorts"
  /\ lastEvent[1].kind = "timeout"
  /\ lastEvent[1].item \notin Listeners
  /\ probes[lastEvent[1].chunk][lastEvent[1].pos].st = "fulfilled"
  /\ ~probes[lastEvent[1].chunk][lastEvent[1].pos].value[1].isOpen

(***************************************************************************)
(* Properties of the progress callback.                                    *)
(***************************************************************************)
\* C4: the k-th call of the progress callback receives round(100 * k / n) and the
\* item whose probe just completed, one call per completion, and the last call
\* of a scan receives 100.
C4_ProgressIsRoundedShare ==
  progress.calls > 0 =>
    /\ progress.calls = completed
    /\ progress.pct = ExactPercent(progress.calls, Len(call.items))
    /\ progress.id = Some(lastEvent[1].item)
    /\ pc = "returned" => progress.pct = 100

(***************************************************************************)
(* Properties of the banner pass.                                          *)
(***************************************************************************)
\* C8: every getBanner call eventually resolves, whatever the socket does, so
\* detectServices, which awaits each call in turn, eventually returns.
C8_DetectServicesReturns == <>(detect.pc = "returned")

(***************************************************************************)
(* Properties of the routes.                                               *)
(***************************************************************************)
\* The list the request specifies, if its specification parses.
requestList(req) ==
  IF req.kind = "port"
  THEN IF parsePorts(req.ports).ok THEN Some(parsePorts(req.ports).ports) ELSE Undefined
  ELSE IF parseIPRange(req.target).ok
  THEN Some(generateIPList(parseIPRange(req.target)))
  ELSE Undefined

parseThrows(req) ==
  IF req.kind = "port" THEN ~parsePorts(req.ports).ok ELSE ~parseIPRange(req.target).ok

NoScanStarted ==
  /\ pc = "idle"
  /\ call = NoCall
  /\ probes = <<>>
  /\ detect = NoDetect
  /\ sock = NoSock

\* C9: the network route calls discoverNetwork only with 1 to 1000 addresses and
\* the port route calls scanPorts only with at most 1000 ports; a request whose
\* list is larger is answered with an error and no probe is started.
C9_RouteCeilings ==
  /\ call.fn = "discoverNetwork" => Len(call.items) >= 1 /\ Len(call.items) <= 1000
  /\ call.fn = "scanPorts" => Len(call.items) <= 1000
  /\ (/\ route.pc # "received"
      /\ requestList(route.req) # Undefined
      /\ Len(requestList(route.req)[1]) > 1000) =>
       /\ route.pc = "responded"
       /\ ~response.success
       /\ response.status >= 400
       /\ NoScanStarted

\* A port request for 1001 ports was answered with the error, nothing started.
C9_Witness ==
  /\ route.pc = "responded"
  /\ route.req.kind = "port"
  /\ requestList(route.req) # Undefined
  /\ Len(requestList(route.req)[1]) = 1001
  /\ response.status = 400
  /\ NoScanStarted

\* C10: when parseIPRange or parsePorts throws on the request's specification,
\* the route answers with an error response (success = false) and neither
\* discoverNetwork, scanPorts nor detectServices is invoked.
C10_MalformedNeverScans ==
  (route.pc # "received" /\ parseThrows(route.req)) =>
    /\ route.pc = "responded"
    /\ ~response.success
    /\ response.status >= 400
    /\ NoScanStarted

\* A network request whose target parseIPRange threw on was answered from the
\* outer catch.
C10_Witness ==
  /\ route.pc = "responded"
  /\ route.req.kind = "network"
  /\ route.req.target # <<>>
  /\ parseThrows(route.req)
  /\ response.status = 500
  /\ ~response.success

(***************************************************************************)
(* Properties of parseIPRange and generateIPList.  Addresses are read here *)
(* octet by octet, and blocks are cut by division, without the shifts of   *)
(* the code.                                                               *)
(***************************************************************************)
isDecimal(t) == Len(t) >= 1 /\ \A i \in 1..Len(t) : isDigit(t[i])
decimalValue(t) == digitsValue(t, Len(t))

DottedQuad(t) ==
  LET parts == split(t, ".")
  IN /\ Len(parts) = 4
     /\ \A i \in 1..4 : isDecimal(parts[i]) /\ Len(parts[i]) <= 3 /\ decimalValue(parts[i]) <= 255

quadValue(t) ==
  LET parts == split(t, ".")
  IN W(decimalValue(parts[1]) * 256 + decimalValue(parts[2]),
       decimalValue(parts[3]) * 256 + decimalValue(parts[4]))

IsCidr(t) ==
  LET parts == split(t, "/")
  IN /\ Len(parts) = 2
     /\ DottedQuad(parts[1])
     /\ isDecimal(parts[2]) /\ Len(parts[2]) <= 2 /\ decimalValue(parts[2]) <= 32

cidrQuad(t) == quadValue(split(t, "/")[1])
cidrPrefix(t) == decimalValue(split(t, "/")[2])

\* The first and the last address of the block of 2^(32 - p) addresses that holds q.
networkOf(q, p) ==
  IF p >= 16 THEN W(q.hi, q.lo - (q.lo % pow2(32 - p)))
  ELSE W(q.hi - (q.hi % pow2(16 - p)), 0)

broadcastOf(q, p) ==
  IF p >= 16 THEN W(q.hi, networkOf(q, p).lo + pow2(32 - p) - 1)
  ELSE W(networkOf(q, p).hi + pow2(16 - p) - 1, Half - 1)

ParsedCidr ==
  /\ applied.fn = "parseIPRange"
  /\ applied.pc \in {"parsed", "threw", "listed"}
  /\ IsCidr(trim(applied.arg))

\* C11: for CIDR input quad/prefix with prefix 0..32, parseIPRange returns
\* startIP = network + 1, endIP = broadcast - 1 and
\* totalHosts = max(0, (broadcast - network) - 1), with network = quad & mask and
\* broadcast = network | ~mask; totalHosts is never negative and is 0 for /31 and
\* /32; 192.168.1.0/24 gives 192.168.1.1, 192.168.1.254 and 254.
C11_CidrBlock ==
  ParsedCidr =>
    LET text == trim(applied.arg)
        network == networkOf(cidrQuad(text), cidrPrefix(text))
        broadcast == broadcastOf(cidrQuad(text), cidrPrefix(text))
        hosts == sub(sub(broadcast, network), N(1))
        range == applied.range
    IN /\ range.ok
       /\ DottedQuad(range.startIP) /\ quadValue(range.startIP) = add(network, N(1))
       /\ DottedQuad(range.endIP) /\ quadValue(range.endIP) = sub(broadcast, N(1))
       /\ range.totalHosts = (IF hosts.hi < 0 THEN N(0) ELSE hosts)
       /\ range.totalHosts.hi >= 0
       /\ cidrPrefix(text) >= 31 => range.totalHosts = N(0)
       /\ text = chars("192.168.1.0/24") =>
            /\ range.startIP = chars("192.168.1.1")
            /\ range.endIP = chars("192.168.1.254")
            /\ range.totalHosts = N(254)

\* For the prefixes 1..31 the returned block is the one above.
CidrBlockFrom1To31 ==
  (ParsedCidr /\ cidrPrefix(trim(applied.arg)) \in 1..31) => C11_CidrBlock

lessOrEqual(x, y) == x.hi < y.hi \/ (x.hi = y.hi /\ x.lo <= y.lo)

ListedCidr == ParsedCidr /\ applied.pc = "listed"

\* C12: for every valid CIDR text quad/prefix with prefix 0..32,
\* generateIPList(parseIPRange(text)) contains exactly parseIPRange(text).totalHosts
\* addresses, and none of them is the network address or the broadcast address of
\* the block.
C12_ListedHosts ==
  ListedCidr =>
    LET text == trim(applied.arg)
        network == networkOf(cidrQuad(text), cidrPrefix(text))
        broadcast == broadcastOf(cidrQuad(text), cidrPrefix(text))
        first == quadValue(applied.range.startIP)
        last == quadValue(applied.range.endIP)
    IN /\ applied.length = applied.range.totalHosts
       /\ applied.ips # Undefined =>
            \A k \in 1..Len(applied.ips[1]) :
              quadValue(applied.ips[1][k]) \notin {network, broadcast}
       /\ applied.length # N(0) =>
            \A edge \in {network, broadcast} :
              ~(lessOrEqual(first, edge) /\ lessOrEqual(edge, last))

\* For the prefixes 1..31 the list is the block without its two edges.
ListedHostsFrom1To31 ==
  (ListedCidr /\ cidrPrefix(trim(applied.arg)) \in 1..31) => C12_ListedHosts

IsDashRange(t) ==
  LET parts == split(t, "-")
  IN /\ Len(parts) = 2
     /\ DottedQuad(trim(parts[1]))
     /\ DottedQuad(trim(parts[2]))

dashStart(t) == quadValue(trim(split(t, "-")[1]))
dashEnd(t) == quadValue(trim(split(t, "-")[2]))

\* A single dotted quad, quad/prefix with a prefix in 0..32, or quadA-quadB with
\* quadA <= quadB.
WellFormedRange(t) ==
  \/ DottedQuad(t)
  \/ IsCidr(t)
  \/ IsDashRange(t) /\ lessOrEqual(dashStart(t), dashEnd(t))

\* C13: parseIPRange throws for every text that is neither a single valid dotted
\* quad, nor quad/prefix with a valid quad and an integer prefix in 0..32, nor
\* quadA-quadB with both quads valid and quadA <= quadB.
C13_MalformedRangeThrows ==
  (/\ applied.fn = "parseIPRange"
   /\ applied.pc # "called"
   /\ ~WellFormedRange(trim(applied.arg)))
    => applied.pc = "threw"

\* The converse: every text of one of the three forms is parsed.
WellFormedRangeParses ==
  (/\ applied.fn = "parseIPRange"
   /\ applied.pc # "called"
   /\ WellFormedRange(trim(applied.arg)))
    => applied.pc # "threw"

ParsedDash ==
  /\ applied.fn = "parseIPRange"
  /\ applied.pc # "called"
  /\ IsDashRange(trim(applied.arg))
  /\ lessOrEqual(dashStart(trim(applied.arg)), dashEnd(trim(applied.arg)))

listHolds(ips, address) ==
  \E k \in 1..Len(ips) : DottedQuad(ips[k]) /\ quadValue(ips[k]) = address

\* C14: for every dash range a-b of valid dotted quads with a <= b as unsigned
\* 32-bit integers, parseIPRange returns totalHosts = int(b) - int(a) + 1, and
\* generateIPList of that range includes both a and b.
C14_DashRangeInclusive ==
  ParsedDash =>
    LET a == dashStart(trim(applied.arg))
        b == dashEnd(trim(applied.arg))
    IN /\ applied.pc # "threw"
       /\ applied.range.totalHosts = add(sub(b, a), N(1))
       /\ applied.pc = "listed" =>
            /\ applied.ips # Undefined
            /\ listHolds(applied.ips[1], a)
            /\ listHolds(applied.ips[1], b)

\* A listed range that starts below 128.0.0.0 and ends above it.
C14_Witness ==
  /\ ParsedDash
  /\ applied.pc = "listed"
  /\ dashStart(trim(applied.arg)).hi < 32768
  /\ dashEnd(trim(applied.arg)).hi >= 32768
  /\ Len(applied.ips[1]) >= 4

ListedRange ==
  /\ applied.fn \in {"parseIPRange", "generateIPList"}
  /\ applied.pc = "listed"
  /\ DottedQuad(applied.range.startIP)
  /\ DottedQuad(applied.range.endIP)

\* C15: generateIPList(range) returns exactly the addresses from startIP to endIP
\* inclusive, in strictly ascending numeric order, each once
\* (length = end - start + 1), also at and above 128.0.0.0.
C15_ListIsTheRange ==
  ListedRange =>
    LET start == quadValue(applied.range.startIP)
        end == quadValue(applied.range.endIP)
    IN /\ applied.length =
            (IF lessOrEqual(start, end) THEN add(sub(end, start), N(1)) ELSE N(0))
       /\ applied.ips # Undefined =>
            /\ N(Len(applied.ips[1])) = applied.length
            /\ \A k \in 1..Len(applied.ips[1]) :
                 /\ DottedQuad(applied.ips[1][k])
                 /\ quadValue(applied.ips[1][k]) = add(start, N(k - 1))

\* A list of several addresses that starts below 128.0.0.0 and ends above it.
C15_Witness ==
  /\ ListedRange
  /\ applied.fn = "generateIPList"
  /\ applied.ips # Undefined
  /\ Len(applied.ips[1]) >= 3
  /\ quadValue(applied.ips[1][1]).hi < 32768
  /\ quadValue(applied.ips[1][Len(applied.ips[1])]).hi >= 32768

(***************************************************************************)
(* Properties of parsePorts.                                               *)
(***************************************************************************)
PortsReturned == applied.fn = "parsePorts" /\ applied.pc = "returned"
PortsThrew == applied.fn = "parsePorts" /\ applied.pc = "threw"
portsText == toLowerCase(trim(applied.arg))

\* C16: every list a successful parsePorts call returns (keyword 'common' in any
\* letter case and with blanks around it, single port, comma list, dash range) is
\* strictly ascending and holds only integers from 1 to 65535.
C16_PortsAscendingInRange ==
  PortsReturned =>
    LET ports == applied.ports.ports
    IN /\ applied.ports.ok
       /\ \A i \in 1..Len(ports) : ports[i] \in 1..65535
       /\ \A i \in 1..(Len(ports) - 1) : ports[i] < ports[i + 1]

\* A comma list given out of order and with a repeated port was returned.
C16_Witness ==
  /\ PortsReturned
  /\ LET tokens == split(portsText, ",")
     IN /\ \E i, j \in 1..Len(tokens) :
             i < j /\ isDecimal(tokens[i]) /\ tokens[i] = tokens[j]
        /\ \E i, j \in 1..Len(tokens) :
             /\ i < j /\ isDecimal(tokens[i]) /\ isDecimal(tokens[j])
             /\ decimalValue(tokens[j]) \in 1..65535
             /\ decimalValue(tokens[i]) \in 1..65535
             /\ decimalValue(tokens[i]) > decimalValue(tokens[j])
  /\ Len(applied.ports.ports) >= 2

\* The text is an integer: an optional sign and digits, nothing else.
isInteger(t) ==
  IF t # <<>> /\ t[1] \in {"+", "-"} THEN isDecimal(Tail(t)) ELSE isDecimal(t)

integerValue(t) ==
  IF t[1] = "-" THEN 0 - decimalValue(Tail(t))
  ELSE IF t[1] = "+" THEN decimalValue(Tail(t))
  ELSE decimalValue(t)

isPortText(t) == isInteger(t) /\ integerValue(t) \in 1..65535

CommaSpec == applied.fn = "parsePorts" /\ applied.pc # "called" /\ includes(portsText, ",")

\* The ports a comma list names: its tokens that are integers from 1 to 65535.
namedPorts(text) ==
  LET tokens == split(text, ",")
  IN {integerValue(trim(tokens[i])) : i \in {j \in 1..Len(tokens) : isPortText(trim(tokens[j]))}}

\* C17: for a comma-separated port specification parsePorts returns the ascending,
\* duplicate-free list of the tokens that are integers from 1 to 65535, dropping
\* the other tokens, and fails with 'No valid ports found' only when no token
\* remains ("22,80,80,443" gives [22,80,443], "abc,80,xyz" gives [80], "abc,xyz"
\* fails).
C17_CommaListKeepsValidTokens ==
  CommaSpec =>
    IF namedPorts(portsText) = {}
    THEN applied.pc = "threw" /\ applied.ports.error = "No valid ports found"
    ELSE applied.pc = "returned" /\ applied.ports.ports = sortAscending(namedPorts(portsText))

\* The same for the comma lists whose tokens are integers without a sign or hold
\* no digit at all.
CommaListOfPlainTokens ==
  (/\ CommaSpec
   /\ \A c \in {portsText[i] : i \in 1..Len(portsText)} : c # "-"
   /\ LET tokens == split(portsText, ",")
      IN \A i \in 1..Len(tokens) :
           isDecimal(trim(tokens[i])) \/ \A k \in 1..Len(tokens[i]) : ~isDigit(tokens[i][k]))
    => C17_CommaListKeepsValidTokens

SingleSpec ==
  /\ applied.fn = "parsePorts"
  /\ applied.pc # "called"
  /\ portsText # Common
  /\ ~includes(portsText, "-")
  /\ ~includes(portsText, ",")

DashSpec ==
  /\ applied.fn = "parsePorts"
  /\ applied.pc # "called"
  /\ Len(split(portsText, "-")) = 2

dashLow == trim(split(portsText, "-")[1])
dashHigh == trim(split(portsText, "-")[2])

ValidDash ==
  /\ isPortText(dashLow)
  /\ isPortText(dashHigh)
  /\ integerValue(dashLow) <= integerValue(dashHigh)

\* C18: parsePorts fails for a single port that is non-numeric or outside 1..65535,
\* and for a dash form a-b when a bound is non-numeric, a > b, or a bound is
\* outside 1..65535; for a valid dash form it returns exactly a, a+1, ..., b.
C18_InvalidPortsFail ==
  /\ (SingleSpec /\ ~isPortText(portsText)) => applied.pc = "threw"
  /\ (DashSpec /\ ~ValidDash) => applied.pc = "threw"
  /\ (DashSpec /\ ValidDash) =>
       /\ applied.pc = "returned"
       /\ applied.ports.ports =
            [k \in 1..(integerValue(dashHigh) - integerValue(dashLow) + 1) |->
               integerValue(dashLow) + k - 1]

\* The same for single ports and bounds that are integers without a sign or hold
\* no digit at all.
PlainPortsFailOrCount ==
  (\A t \in IF DashSpec THEN {dashLow, dashHigh} ELSE {portsText} :
     isDecimal(t) \/ \A k \in 1..Len(t) : ~isDigit(t[k]))
    => C18_InvalidPortsFail

(***************************************************************************)
(* Properties of the banner pass.                                          *)
(***************************************************************************)
\* C19: detectServices returns a list of the same length and order as its input;
\* an entry with isOpen = false is returned as it was, and an entry with
\* isOpen = true keeps its port, isOpen, service and responseTime, only its
\* banner is set.
C19_DetectKeepsEntries ==
  detect.pc = "returned" =>
    /\ Len(detect.results) = Len(detect.input)
    /\ \A i \in 1..Len(detect.input) :
         IF detect.input[i].isOpen
         THEN [detect.results[i] EXCEPT !.banner = detect.input[i].banner] = detect.input[i]
         ELSE detect.results[i] = detect.input[i]

\* detectServices returned for an open port followed by a closed one, with a banner.
C19_Witness ==
  /\ detect.pc = "returned"
  /\ Len(detect.input) = 2
  /\ detect.input[1].isOpen
  /\ ~detect.input[2].isOpen
  /\ detect.results[1].banner # Undefined
  /\ detect.results[1].banner # detect.input[1].banner

PortRouteRuns == route.req.kind = "port" /\ route.pc # "received"
ScanComplete ==
  /\ pc = "returned"
  /\ InFlight = 0
  /\ completed = Len(call.items)
  /\ Len(returned) = Len(call.items)

\* C20: in the port route the banner pass is a second pass: no getBanner connection
\* is opened until every scanPort probe of the scan has completed, getBanner is
\* called only for ports whose scan result has isOpen = true, and not at all when
\* no port is open.
C20_BannerPassIsSecond ==
  PortRouteRuns =>
    /\ (sock # NoSock \/ detect # NoDetect) =>
         /\ ScanComplete
         /\ detect.input = returned
         /\ \E i \in 1..Len(returned) : returned[i].isOpen
    /\ detect.pc = "awaiting" =>
         /\ sock # NoSock
         /\ detect.input[detect.idx].isOpen
         /\ returned[detect.idx].isOpen
    /\ sock # NoSock => detect.pc \in {"awaiting", "returned"}
    /\ \A i \in 1..Len(detect.results) :
         detect.results[i].banner # Undefined => returned[i].isOpen

\* The banner connection for the open port of a scan that found one port open and
\* one closed.
C20_Witness ==
  /\ PortRouteRuns
  /\ route.pc = "detecting"
  /\ detect.pc = "awaiting"
  /\ sock.socket = "connected"
  /\ \E i \in 1..Len(returned) : ~returned[i].isOpen
  /\ detect.idx > 1

\* C21: every banner getBanner returns, and so every banner detectServices
\* attaches, has at most 1024 characters, whatever data chunks arrived and
\* whichever handler resolved (size cap, socket timeout, error, 2-second timer).
C21_BannerAtMostLimit ==
  /\ sock.value # Undefined => Len(sock.value[1]) <= BannerLimit
  /\ \A i \in 1..Len(detect.results) :
       detect.results[i].banner # Undefined =>
         Len(detect.results[i].banner[1]) <= BannerLimit

\* More than 1024 characters arrived and a banner of exactly 1024 was attached.
C21_Witness ==
  /\ sock.st = "fulfilled"
  /\ Len(sock.banner) > BannerLimit
  /\ \E i \in 1..Len(detect.results) :
       /\ detect.results[i].banner # Undefined
       /\ Len(detect.results[i].banner[1]) = BannerLimit

(***************************************************************************)
(* Properties of the probes.                                               *)
(***************************************************************************)
\* C22: the result of scanPort is fixed by the first of the socket's connect,
\* timeout and error events: connect gives isOpen = true with the port's service
\* name and a responseTime; timeout or error gives isOpen = false with the service
\* name and no responseTime; a later event does not change the result.
C22_FirstEventDecides ==
  (applied.fn = "scanPort" /\ applied.events # <<>>) =>
    LET first == applied.events[1]
        port == applied.arg
    IN /\ applied.promise.st = "fulfilled"
       /\ applied.promise.value =
            Some([port |-> port,
                  isOpen |-> first.kind = "connect",
                  service |-> IF port \in DOMAIN COMMON_PORTS THEN COMMON_PORTS[port]
                              ELSE "Unknown",
                  responseTime |-> IF first.kind = "connect" THEN Some(first.responseTime)
                                   ELSE Undefined,
                  banner |-> Undefined])

\* A timeout was followed by a connect and by an error.
C22_Witness ==
  /\ applied.fn = "scanPort"
  /\ Len(applied.events) = 3
  /\ applied.events[1].kind = "timeout"
  /\ applied.events[2].kind = "connect"
  /\ applied.events[3].kind = "error"

pingRecords ==
  UNION {{probes[c][p].value[1] :
            p \in {q \in 1..Len(probes[c]) : probes[c][q].st = "fulfilled"}} :
           c \in 1..Len(probes)}
    \cup {returned[i] : i \in 1..Len(returned)}

\* C23: every record pingHost returns has responseTime and lastSeen defined exactly
\* when isActive is true: when the ping command fails or its output lacks the
\* success marker the record is inactive without responseTime; on success it
\* carries the measured latency and a timestamp.
C23_PingTimedIffActive ==
  call.fn = "discoverNetwork" =>
    /\ \A r \in pingRecords :
         /\ r.isActive <=> r.responseTime # Undefined
         /\ r.isActive <=> r.lastSeen # Undefined
    /\ lastEvent # Undefined =>
         LET r == probes[lastEvent[1].chunk][lastEvent[1].pos].value[1]
         IN /\ r.ip = lastEvent[1].item
            /\ r.isActive <=> lastEvent[1].kind = "reply"
            /\ lastEvent[1].kind = "reply" => r.responseTime[1] \in Latencies

\* A scan returned an active and an inactive host; its last ping printed no reply.
C23_Witness ==
  /\ call.fn = "discoverNetwork"
  /\ pc = "returned"
  /\ lastEvent # Undefined
  /\ lastEvent[1].kind = "no-reply"
  /\ \E i, j \in 1..Len(returned) : returned[i].isActive /\ ~returned[j].isActive

\* C24: whenever the promise of scanPort or getBanner is resolved (on connect,
\* socket timeout, error, banner size cap or the 2-second timer) the probe's socket
\* has been destroyed: no resolved probe leaves its connection open.
C24_ResolvedMeansDestroyed ==
  /\ call.fn = "scanPorts" =>
       \A c \in 1..Len(probes) : \A p \in 1..Len(probes[c]) :
         probes[c][p].st # "pending" => probes[c][p].socket = "destroyed"
  /\ sock.st # "pending" /\ sock # NoSock => sock.socket = "destroyed"

\* The scan's probes resolved on connect and on another event, and the banner call
\* resolved after data had arrived.
C24_Witness ==
  /\ call.fn = "scanPorts"
  /\ Len(returned) = 2
  /\ returned[1].isOpen /\ ~returned[2].isOpen
  /\ sock.st = "fulfilled"
  /\ sock.value # Undefined

(***************************************************************************)
(* Properties of the NetworkScanner component.                             *)
(***************************************************************************)
\* C25: after stopScan is invoked while startScan is still running, no further
\* /api/scan/port or /api/scan/hostname request is sent, and the scan results and
\* the progress stage are no longer changed by the aborted run.
C25_StopScanStopsTheRun ==
  (ui.mounted /\ ui.stopped) =>
    /\ ui.sent = ui.atStop[1].sent
    /\ ui.scanResults = ui.atStop[1].scanResults
    /\ ui.stage = ui.atStop[1].stage

\* C29: after every run of startScan finishes, succeeded or failed, the first one
\* after mounting included, isScanning is false and the current session is marked
\* isActive = false with an endTime.
C29_FinishedRunEndsSession ==
  (ui.mounted /\ ui.run.pc = "finished") =>
    /\ ~ui.isScanning
    /\ ui.currentSession # Undefined
    /\ ~ui.currentSession[1].isActive
    /\ ui.currentSession[1].endTime

\* From the second run on the session is ended.
LaterRunsEndSession == (ui.mounted /\ ui.scans >= 2) => C29_FinishedRunEndsSession

(***************************************************************************)
(* Properties of chunkArray.                                               *)
(***************************************************************************)
\* C26: scanPorts and discoverNetwork terminate for every integer concurrency they
\* can be given, 0 and negative values included: the chunkArray call they begin
\* with never loops forever.
C26_ChunkArrayReturns == <>(applied.pc = "returned")

\* For a size of at least 1 the loop returns the chunks the engine works on.
ChunkLoopIsChunkArray ==
  (applied.fn = "chunkArray" /\ applied.size >= 1) =>
    /\ applied.i <= Len(applied.array) + applied.size
    /\ applied.pc = "returned" => applied.chunks = chunkArray(applied.array, applied.size)

(***************************************************************************)
(* Properties of discoverNetwork and of the network route.                 *)
(***************************************************************************)
\* C27: discoverNetwork returns the host records in the input order of its targets
\* (result[i].ip = targets[i] for every i), in whatever order the pings of a batch
\* complete.
C27_HostsInInputOrder ==
  (call.fn = "discoverNetwork" /\ pc = "returned") =>
    /\ Len(returned) = Len(call.items)
    /\ \A i \in 1..Len(call.items) : returned[i].ip = call.items[i]

\* Two different hosts were pinged in one batch and the first one's ping ended last.
C27_Witness ==
  /\ call.fn = "discoverNetwork"
  /\ pc = "returned"
  /\ lastEvent # Undefined
  /\ lastEvent[1].pos = 1
  /\ Len(chunks[lastEvent[1].chunk]) >= 2
  /\ chunks[lastEvent[1].chunk][1] # chunks[lastEvent[1].chunk][2]

\* The text is four decimal octets from 0 to 255, written without leading zeros
\* and joined by dots.
RenderedAddress(t) ==
  /\ DottedQuad(t)
  /\ LET parts == split(t, ".")
     IN t = dotted([i \in 1..4 |-> decimalValue(parts[i])])

\* C28: for every target text the network route accepts, every address handed to
\* pingHost is the intToIP rendering of an integer in [0, 2^32): four decimal
\* octets in 0..255 joined by dots, never a piece of the request's text.
C28_PingedAddressesAreRendered ==
  (route.req.kind = "network" /\ call.fn = "discoverNetwork") =>
    /\ \A i \in 1..Len(call.items) : RenderedAddress(call.items[i])
    /\ \A c \in 1..Len(chunks) : \A p \in 1..Len(chunks[c]) : RenderedAddress(chunks[c][p])

\* A ping was made for a target text that is no address, range or block.
C28_Witness ==
  /\ route.req.kind = "network"
  /\ call.fn = "discoverNetwork"
  /\ ~WellFormedRange(trim(route.req.target))
  /\ \E c \in 1..Len(probes) : \E p \in 1..Len(probes[c]) : probes[c][p].st = "fulfilled"

(***************************************************************************)
(* Properties of IPUtils.cidrToSubnetMask and subnetMaskToCIDR.            *)
(***************************************************************************)
\* The octets of the mask with exactly p leading one-bits.
onesMask(p) ==
  dotted([i \in 1..4 |->
            IF p >= 8 * i THEN 255
            ELSE IF p <= 8 * (i - 1) THEN 0
            ELSE 256 - pow2(8 * i - p)])

MaskReturned ==
  /\ applied.fn = "cidrToSubnetMask"
  /\ applied.pc \in {"returned", "converted"}

\* C30: for every prefix p in 0..32, cidrToSubnetMask(p) is the mask with exactly
\* p leading one-bits (p = 0 gives 0.0.0.0), and subnetMaskToCIDR of that mask is p.
C30_MaskOfPrefixAndBack ==
  (applied.fn = "cidrToSubnetMask" /\ applied.prefix \in 0..32 /\ applied.pc # "called") =>
    /\ MaskReturned
    /\ applied.mask = onesMask(applied.prefix)
    /\ applied.pc = "converted" => applied.cidr = applied.prefix

\* The same for the prefixes 1..32; a prefix outside 0..32 throws.
MaskOfPrefixFrom1To32 ==
  /\ (applied.fn = "cidrToSubnetMask" /\ applied.prefix \in 1..32 /\ applied.pc # "called") =>
       /\ MaskReturned
       /\ applied.mask = onesMask(applied.prefix)
       /\ applied.pc = "converted" => applied.cidr = applied.prefix
  /\ (applied.fn = "cidrToSubnetMask" /\ applied.prefix \notin 0..32 /\ applied.pc # "called") =>
       applied.pc = "threw"

\* What the code does for the prefix 0.
MaskOfPrefixZero ==
  (applied.fn = "cidrToSubnetMask" /\ applied.prefix = 0 /\ applied.pc = "converted") =>
    /\ applied.mask = chars("255.255.255.255")
    /\ applied.cidr = 32

====
